---- MODULE Spec2Model ----
(***************************************************************************)
(* Data preparation of the condom-use correlates analysis                  *)
(* (01_prepare_data.py): load, derived variables, cohort filter, save;     *)
(* and the regression battery run on the saved table                       *)
(* (03_regression_models.py).                                              *)
(*                                                                         *)
(* A pandas DataFrame is a record [index, columns, col]: index is the      *)
(* sequence of row labels, columns the sequence of column names and        *)
(* col[name][label] the cell.  A missing cell (NaN / pd.NA) is the value   *)
(* NaN below; every comparison is written through eq/gt/ge/isin, which     *)
(* give pandas' answer (False) on a missing cell.  The floats 0.0 and 1.0  *)
(* of the indicator columns are the integers 0 and 1.                      *)
(***************************************************************************)
EXTENDS Integers, Sequences, FiniteSets, TLC

VARIABLES
    xlsx,           \* IN_FN on disk: <<>> unreadable, <<frame>> readable
    csv,            \* IN_CSV on disk: <<>> unreadable, <<frame>> readable
    pc,             \* the STEP the script is about to run
    df,             \* the respondent table
    data_source,    \* which source was loaded
    df_analysis,    \* the analysis sample of STEP 8
    initial_n,      \* len(df) at STEP 8
    report,         \* the retained counts and percentages STEP 8 prints
    out_file,       \* paperB_analytical_dataset.xlsx: <<>> or <<frame>>
    reads,          \* the sources STEP 1 tried to read, in order
    pc3,            \* where 03_regression_models.py stands
    df3,            \* the table 03_regression_models.py loaded
    model_data,     \* model_data[k]: <<>> or <<modelK_data>> of the model fitted
    lr_test,        \* <<>> or <<the two fits the statistic was taken from>>
    age_groups,     \* the age-group labels the stratified loop has yet to visit
    age_stratified_results,     \* the rows of the age-stratified table
    fit_error,      \* <<>> or <<the fit whose exception ended the script>>
    workbook,       \* paperB_regression_models.xlsx: <<>> or <<its sheets>>
    run,            \* which run of 01_prepare_data.py this is: 1 or 2
    first_run,      \* <<>> or <<what the first run left when it ended>>
    pc2,            \* where 02_bivariate_associations.py stands
    df2,            \* the table 02_bivariate_associations.py loaded
    correlations,   \* the rows of the Spearman table
    printed,        \* the direction lines the Spearman loop printed
    chi2_results,   \* the rows of the chi-square table
    age_groups2,    \* age_groups of the Kruskal-Wallis block: the labels with data
    kruskal,        \* <<>> or <<the labels the Kruskal-Wallis test compared>>
    age_desc,       \* <<>> or <<the descriptive table by age group>>
    test_error,     \* <<>> or <<the test whose exception ended the script>>
    workbook2,      \* paperB_bivariate_associations.xlsx: <<>> or <<its sheets>>
    pc4,            \* where 04_visualizations.py stands
    df4,            \* the table 04_visualizations.py loaded
    figures,        \* the figure files written
    pc5,            \* where 05_prisma_diagram.py stands
    prisma,         \* <<>> or <<the counts the flow diagram shows>>
    earlier2,       \* <<>> or <<what an earlier run of 02_bivariate_associations.py computed>>
    earlier3        \* <<>> or <<what an earlier run of 03_regression_models.py computed>>

\* The state of 03_regression_models.py.
reg_vars == <<pc3, df3, model_data, lr_test, age_groups, age_stratified_results,
              fit_error, workbook>>

\* The record of the earlier runs of the scripts.
run_vars == <<run, first_run, earlier2, earlier3>>

\* The state of 02_bivariate_associations.py.
biv_vars == <<pc2, df2, correlations, printed, chi2_results, age_groups2, kruskal,
              age_desc, test_error, workbook2>>

\* The state of 04_visualizations.py and 05_prisma_diagram.py.
fig_vars == <<pc4, df4, figures, pc5, prisma>>

\* The state of 01_prepare_data.py and the files it reads and writes.
prep_vars == <<xlsx, csv, pc, df, data_source, df_analysis, initial_n, report, out_file,
               reads>>

vars == <<prep_vars, reg_vars, run_vars, biv_vars, fig_vars>>

\* ---------------------------------------------------------------- bounds

\* Largest number of respondents of an input table in the cohort runs.
MaxRows == 2

\* Largest raw age of a respondent in the load runs.
MaxAge == 85

\* ------------------------------------------------------ cells and frames

\* The missing cell.
NaN == -1

\* A text cell of the raw age column that float() cannot parse.
NotANumber == -2

\* The missing cell of a label (text) column.
NaNLabel == "NaN"

isna(v) == v = NaN

notna(v) == v # NaN

\* Series == c, Series > c, Series >= c, Series.isin(S): False on a missing cell.
eq(v, c) == notna(v) /\ v = c

gt(v, c) == notna(v) /\ v > c

ge(v, c) == notna(v) /\ v >= c

isin(v, S) == notna(v) /\ v \in S

\* .astype(int) / .astype(float) of a boolean Series.
astype(b) == IF b THEN 1 ELSE 0

Range(s) == {s[i] : i \in DOMAIN s}

Labels(f) == Range(f.index)

HasCol(f, c) == c \in Range(f.columns)

NoFrame == [index |-> <<>>, columns |-> <<>>, col |-> [c \in {} |-> <<>>]]

\* df[c] = values: a new column goes last, an existing one keeps its place.
SetCol(f, c, values) ==
    [index |-> f.index,
     columns |-> IF HasCol(f, c) THEN f.columns ELSE Append(f.columns, c),
     col |-> [k \in Range(f.columns) \cup {c} |-> IF k = c THEN values ELSE f.col[k]]]

\* The Series a scalar broadcasts to.
Broadcast(f, v) == [l \in Labels(f) |-> v]

\* frame[mask].copy(): the rows whose mask is True, in their order, labels kept.
BoolIndex(f, mask) ==
    LET keep == SelectSeq(f.index, LAMBDA l : mask[l])
    IN  [index |-> keep,
         columns |-> f.columns,
         col |-> [c \in Range(f.columns) |-> [l \in Range(keep) |-> f.col[c][l]]]]

\* ------------------------------------------------------------- STEP 1

\* The bins closed on the right: an age of 30 still in the first bin.
assign_age_group_closed_right(age) ==
    IF age = NotANumber \/ isna(age) THEN NaN
    ELSE IF age >= 18 /\ age <= 30 THEN 1
    ELSE IF age > 30 /\ age <= 40 THEN 2
    ELSE IF age > 40 /\ age <= 50 THEN 3
    ELSE IF age > 50 /\ age <= 60 THEN 4
    ELSE IF age > 60 /\ age <= 70 THEN 5
    ELSE IF age > 70 /\ age <= 80 THEN 6
    ELSE IF age > 80 THEN 7
    ELSE NaN

\* assign_age_group: decade bins of the raw age.
assign_age_group(age) ==
    IF age = NotANumber \/ isna(age) THEN NaN
    ELSE IF age >= 18 /\ age < 30 THEN 1
    ELSE IF age >= 30 /\ age < 40 THEN 2
    ELSE IF age >= 40 /\ age < 50 THEN 3
    ELSE IF age >= 50 /\ age < 60 THEN 4
    ELSE IF age >= 60 /\ age < 70 THEN 5
    ELSE IF age >= 70 /\ age < 80 THEN 6
    ELSE IF age >= 80 THEN 7
    ELSE NaN

\* The Excel path recomputing the age groups from p4 as the CSV path does.
load_rebinning(x, c) ==
    IF Len(x) = 1
    THEN [ok |-> TRUE, reads |-> <<"xlsx">>, data_source |-> "ENSSEX_age_groups.xlsx",
          df |-> IF HasCol(x[1], "p4")
                 THEN SetCol(x[1], "edad_grupo",
                             [l \in Labels(x[1]) |-> assign_age_group(x[1].col["p4"][l])])
                 ELSE x[1]]
    ELSE IF Len(c) = 1 /\ HasCol(c[1], "p4")
    THEN [ok |-> TRUE, reads |-> <<"xlsx", "csv">>, data_source |-> "20241205_ENSSEX_data.csv",
          df |-> SetCol(c[1], "edad_grupo",
                        [l \in Labels(c[1]) |-> assign_age_group(c[1].col["p4"][l])])]
    ELSE [ok |-> FALSE, reads |-> <<"xlsx", "csv">>, data_source |-> "",
          df |-> IF Len(c) = 1 THEN c[1] ELSE NoFrame]

\* The try/except of the load, given what is on disk: Excel first, CSV (with
\* inline age groups) on any failure; an unreadable CSV, or one without p4, is
\* an uncaught exception.
load(x, c) ==
    IF Len(x) = 1
    THEN [ok |-> TRUE, reads |-> <<"xlsx">>, data_source |-> "ENSSEX_age_groups.xlsx",
          df |-> x[1]]
    ELSE IF Len(c) = 1 /\ HasCol(c[1], "p4")
    THEN [ok |-> TRUE, reads |-> <<"xlsx", "csv">>, data_source |-> "20241205_ENSSEX_data.csv",
          df |-> SetCol(c[1], "edad_grupo",
                        [l \in Labels(c[1]) |-> assign_age_group(c[1].col["p4"][l])])]
    ELSE [ok |-> FALSE, reads |-> <<"xlsx", "csv">>,
          data_source |-> IF Len(c) = 1 THEN "20241205_ENSSEX_data.csv" ELSE "",
          df |-> IF Len(c) = 1 THEN c[1] ELSE NoFrame]

Step1 ==
    /\ pc = "step1"
    /\ df' = load(xlsx, csv).df
    /\ data_source' = load(xlsx, csv).data_source
    /\ reads' = load(xlsx, csv).reads
    /\ pc' = IF load(xlsx, csv).ok THEN "step2" ELSE "aborted"
    /\ UNCHANGED <<run_vars, biv_vars, fig_vars, reg_vars, xlsx, csv, df_analysis, initial_n, report, out_file>>

\* ------------------------------------------------------------- STEP 2

\* A wrong answer key: item 4 keyed as a TRUE item.
hiv_items_all_true ==
    << [item |-> "i_1_p212", correct_answer |-> 1],
       [item |-> "i_2_p212", correct_answer |-> 1],
       [item |-> "i_3_p212", correct_answer |-> 1],
       [item |-> "i_4_p212", correct_answer |-> 1],
       [item |-> "i_5_p212", correct_answer |-> 2],
       [item |-> "i_6_p212", correct_answer |-> 1] >>

\* The P212 items with their correct answers, in the dict's order.
hiv_items ==
    << [item |-> "i_1_p212", correct_answer |-> 1],
       [item |-> "i_2_p212", correct_answer |-> 1],
       [item |-> "i_3_p212", correct_answer |-> 1],
       [item |-> "i_4_p212", correct_answer |-> 2],
       [item |-> "i_5_p212", correct_answer |-> 2],
       [item |-> "i_6_p212", correct_answer |-> 1] >>

\* Adding the raw code instead of the correctness indicator.
item_point_raw(v, correct_answer) == v

\* (df[item] == correct_answer).astype(int) on one cell.
item_point(v, correct_answer) == astype(eq(v, correct_answer))

\* The loop over hiv_items from its k-th item on; absent columns are skipped.
RECURSIVE score_loop(_, _, _)
score_loop(f, score, k) ==
    IF k > Len(hiv_items) THEN score
    ELSE LET it == hiv_items[k]
         IN  score_loop(f,
                        IF HasCol(f, it.item)
                        THEN [l \in Labels(f) |->
                                 score[l] + item_point(f.col[it.item][l], it.correct_answer)]
                        ELSE score,
                        k + 1)

\* STEP 2 on a table.
step2(f) == SetCol(f, "hiv_knowledge_score", score_loop(f, Broadcast(f, 0), 1))

Step2 ==
    /\ pc = "step2"
    /\ df' = step2(df)
    /\ pc' = "step3"
    /\ UNCHANGED <<run_vars, biv_vars, fig_vars, reg_vars, reads, xlsx, csv, data_source, df_analysis, initial_n, report, out_file>>

\* ------------------------------------------------------------- STEP 3

\* The raw codes of P73 that mean missing / refused.
p73_sentinels == {9, 99}

\* Only code 9 recoded to missing.
condom_use_freq_only9(v) == IF isin(v, {9}) THEN NaN ELSE v

\* condom_use_freq: the raw code, the sentinels recoded to missing.
condom_use_freq(v) == IF isin(v, p73_sentinels) THEN NaN ELSE v

\* The indicator without the recoding of the sentinels.
always_condom_unmasked(v) == astype(eq(v, 1))

\* always_condom: Always (1) against Sometimes / Never, missing on a sentinel.
always_condom(v) == IF isin(v, p73_sentinels) THEN NaN ELSE astype(eq(v, 1))

\* "Sometimes" alone counted as ever.
ever_condom_sometimes(v) == IF isin(v, p73_sentinels) THEN NaN ELSE astype(isin(v, {2}))

\* ever_condom: Always or Sometimes (1, 2) against Never, missing on a sentinel.
ever_condom(v) == IF isin(v, p73_sentinels) THEN NaN ELSE astype(isin(v, {1, 2}))

\* condom_use_lbl: .map of the three categories; anything else has no label.
condom_use_lbl(v) ==
    IF eq(v, 1) THEN "Always"
    ELSE IF eq(v, 2) THEN "Sometimes"
    ELSE IF eq(v, 3) THEN "Never"
    ELSE NaNLabel

\* STEP 3 on a table that has the p73 column.
step3(f) ==
    LET f1 == SetCol(f, "condom_use_freq",
                     [l \in Labels(f) |-> condom_use_freq(f.col["p73"][l])])
        f2 == SetCol(f1, "always_condom",
                     [l \in Labels(f) |-> always_condom(f.col["p73"][l])])
        f3 == SetCol(f2, "ever_condom",
                     [l \in Labels(f) |-> ever_condom(f.col["p73"][l])])
    IN  SetCol(f3, "condom_use_lbl",
               [l \in Labels(f) |-> condom_use_lbl(f3.col["condom_use_freq"][l])])

\* A table without the p73 column ends the run with a KeyError.
Step3 ==
    /\ pc = "step3"
    /\ IF ~HasCol(df, "p73") THEN df' = df /\ pc' = "aborted"
       ELSE df' = step3(df) /\ pc' = "step4"
    /\ UNCHANGED <<run_vars, biv_vars, fig_vars, reg_vars, reads, xlsx, csv, data_source, df_analysis, initial_n, report, out_file>>

\* ------------------------------------------------------------- STEP 4

\* The cap put one too low: 100 partners already counted as extreme.
partners_last_year_cap99(v) == IF eq(v, 999) THEN NaN ELSE IF ge(v, 100) THEN NaN ELSE v

\* partners_last_year: P71 with 999 and the values above 100 recoded to missing.
partners_last_year(v) == IF eq(v, 999) THEN NaN ELSE IF gt(v, 100) THEN NaN ELSE v

\* The indicator without the recoding of the missing counts.
multiple_partners_unmasked(p) == astype(ge(p, 2))

\* multiple_partners: two or more partners, missing when the count is.
multiple_partners(p) == IF isna(p) THEN NaN ELSE astype(ge(p, 2))

\* STEP 4 on a table that has the p71 column.
step4(f) ==
    LET f1 == SetCol(f, "partners_last_year",
                     [l \in Labels(f) |-> partners_last_year(f.col["p71"][l])])
    IN  SetCol(f1, "multiple_partners",
               [l \in Labels(f) |-> multiple_partners(f1.col["partners_last_year"][l])])

\* A table without the p71 column ends the run with a KeyError.
Step4 ==
    /\ pc = "step4"
    /\ IF ~HasCol(df, "p71") THEN df' = df /\ pc' = "aborted"
       ELSE df' = step4(df) /\ pc' = "step5"
    /\ UNCHANGED <<run_vars, biv_vars, fig_vars, reg_vars, reads, xlsx, csv, data_source, df_analysis, initial_n, report, out_file>>

\* ------------------------------------------------------------- STEP 5

\* The column names that start with 'p202_': p202_vih, which the script names,
\* and two more that stand for the other per-disease diagnosis columns.
p202_names == {"p202_vih", "p202_sifilis", "p202_gonorrea"}

\* sti_vars: the p202_ columns of df, in column order.
sti_vars(f) == SelectSeq(f.columns, LAMBDA c : c \in p202_names)

\* The loop with each p202_ column overwriting the indicator: the last column
\* alone decides.
RECURSIVE any_sti_loop_overwrite(_, _, _)
any_sti_loop_overwrite(f, acc, k) ==
    IF k > Len(sti_vars(f)) THEN acc
    ELSE any_sti_loop_overwrite(f,
                                [l \in Labels(f) |-> astype(eq(f.col[sti_vars(f)[k]][l], 1))],
                                k + 1)

\* The loop that ORs the p202_ columns into any_sti, from the k-th one on.
RECURSIVE any_sti_loop(_, _, _)
any_sti_loop(f, acc, k) ==
    IF k > Len(sti_vars(f)) THEN acc
    ELSE any_sti_loop(f,
                      [l \in Labels(f) |->
                          astype(eq(acc[l], 1) \/ eq(f.col[sti_vars(f)[k]][l], 1))],
                      k + 1)

\* any_sti: the summary column when there is one, else the OR of the p202_ columns.
any_sti(f) ==
    IF HasCol(f, "its_alguna_vez")
    THEN [l \in Labels(f) |-> astype(eq(f.col["its_alguna_vez"][l], 1))]
    ELSE any_sti_loop(f, Broadcast(f, 0), 1)

\* hiv_diagnosis: from p202_vih, wholly missing without that column.
hiv_diagnosis(f) ==
    IF HasCol(f, "p202_vih")
    THEN [l \in Labels(f) |-> astype(eq(f.col["p202_vih"][l], 1))]
    ELSE Broadcast(f, NaN)

\* STEP 5 on a table.
step5(f) ==
    LET f1 == SetCol(f, "any_sti", any_sti(f))
    IN  SetCol(f1, "hiv_diagnosis", hiv_diagnosis(f1))

Step5 ==
    /\ pc = "step5"
    /\ df' = step5(df)
    /\ pc' = "step6"
    /\ UNCHANGED <<run_vars, biv_vars, fig_vars, reg_vars, reads, xlsx, csv, data_source, df_analysis, initial_n, report, out_file>>

\* ------------------------------------------------------------- STEP 6

\* The raw codes of P208, P210, P211, P213 that mean missing / refused.
test_sentinels == {9, 99}

\* tested_hiv_12mo and knows_prep: code 1 against the rest, missing on a sentinel;
\* wholly missing without the raw column.
yes_indicator(f, raw) ==
    IF HasCol(f, raw)
    THEN [l \in Labels(f) |->
             IF isin(f.col[raw][l], test_sentinels) THEN NaN
             ELSE astype(eq(f.col[raw][l], 1))]
    ELSE Broadcast(f, NaN)

\* test_reason and no_test_reason: the raw code, missing on a sentinel; wholly
\* missing without the raw column.
reason_code(f, raw) ==
    IF HasCol(f, raw)
    THEN [l \in Labels(f) |->
             IF isin(f.col[raw][l], test_sentinels) THEN NaN ELSE f.col[raw][l]]
    ELSE Broadcast(f, NaN)

\* STEP 6 on a table.
step6(f) ==
    LET f1 == SetCol(f, "tested_hiv_12mo", yes_indicator(f, "p208"))
        f2 == SetCol(f1, "test_reason", reason_code(f1, "p210"))
        f3 == SetCol(f2, "no_test_reason", reason_code(f2, "p211"))
    IN  SetCol(f3, "knows_prep", yes_indicator(f3, "p213"))

Step6 ==
    /\ pc = "step6"
    /\ df' = step6(df)
    /\ pc' = "step7"
    /\ UNCHANGED <<run_vars, biv_vars, fig_vars, reg_vars, reads, xlsx, csv, data_source, df_analysis, initial_n, report, out_file>>

\* ------------------------------------------------------------- STEP 7

\* age_labels: .map of the seven age-group codes; anything else has no label.
age_labels(g) ==
    IF eq(g, 1) THEN "18-29"
    ELSE IF eq(g, 2) THEN "30-39"
    ELSE IF eq(g, 3) THEN "40-49"
    ELSE IF eq(g, 4) THEN "50-59"
    ELSE IF eq(g, 5) THEN "60-69"
    ELSE IF eq(g, 6) THEN "70-79"
    ELSE IF eq(g, 7) THEN "80+"
    ELSE NaNLabel

\* STEP 7 on a table that has the edad_grupo column: labels are made only when
\* the table brings none.
step7(f) ==
    IF HasCol(f, "edad_grupo_lbl") THEN f
    ELSE SetCol(f, "edad_grupo_lbl",
                [l \in Labels(f) |-> age_labels(f.col["edad_grupo"][l])])

\* Making the labels from a table without edad_grupo ends the run with a
\* KeyError.
Step7 ==
    /\ pc = "step7"
    /\ IF ~HasCol(df, "edad_grupo_lbl") /\ ~HasCol(df, "edad_grupo")
       THEN df' = df /\ pc' = "aborted"
       ELSE df' = step7(df) /\ pc' = "step8"
    /\ UNCHANGED <<run_vars, biv_vars, fig_vars, reg_vars, reads, xlsx, csv, data_source, df_analysis, initial_n, report, out_file>>

\* ------------------------------------------------------------- STEP 8

\* The partner filter letting respondents with no partner through.
partner_filter_ge0(f) ==
    BoolIndex(f, [l \in Labels(f) |-> ge(f.col["partners_last_year"][l], 0)])

\* df[df['partners_last_year'] > 0]: sexually active in the last year.
partner_filter(f) ==
    BoolIndex(f, [l \in Labels(f) |-> gt(f.col["partners_last_year"][l], 0)])

\* The condom filter reading always_condom, which a blank P73 leaves defined.
condom_filter_always(f) ==
    BoolIndex(f, [l \in Labels(f) |-> notna(f.col["always_condom"][l])])

\* The condom filter reading the raw code, which keeps the sentinels.
condom_filter_raw(f) ==
    BoolIndex(f, [l \in Labels(f) |-> notna(f.col["p73"][l])])

\* df_analysis[df_analysis['condom_use_freq'].notna()]: valid condom use data.
condom_filter(f) ==
    BoolIndex(f, [l \in Labels(f) |-> notna(f.col["condom_use_freq"][l])])

\* df_analysis[df_analysis['edad_grupo'].notna()]: valid age.
age_filter(f) ==
    BoolIndex(f, [l \in Labels(f) |-> notna(f.col["edad_grupo"][l])])

\* f"{x:.1f}" of n/total*100, in tenths of a percent: the nearest tenth, a tie
\* (which needs total >= 16) going to the even one.
pct1(n, total) ==
    LET q == (1000 * n) \div total
        r == (1000 * n) % total
    IN  IF 2 * r > total THEN q + 1
        ELSE IF 2 * r < total THEN q
        ELSE IF q % 2 = 0 THEN q ELSE q + 1

\* Each percentage taken of the previous step's count.
step8_report_of_previous(n0, n1, n2, n3) ==
    << [n |-> n1, pct |-> pct1(n1, n0)],
       [n |-> n2, pct |-> IF n1 = 0 THEN 0 ELSE pct1(n2, n1)],
       [n |-> n3, pct |-> IF n2 = 0 THEN 0 ELSE pct1(n3, n2)] >>

\* The three "After requiring ..." lines: the count and its percentage of initial_n.
step8_report(n0, n1, n2, n3) ==
    << [n |-> n1, pct |-> pct1(n1, n0)],
       [n |-> n2, pct |-> pct1(n2, n0)],
       [n |-> n3, pct |-> pct1(n3, n0)] >>

\* The three filters in the script's order.  On an empty table the first
\* percentage divides by zero: the run ends there, after the first filter.  A
\* table without edad_grupo (one that brought its own labels) ends the run with
\* a KeyError at the third filter.
Step8 ==
    /\ pc = "step8"
    /\ LET a == partner_filter(df)
           b == condom_filter(a)
           c == age_filter(b)
       IN  /\ initial_n' = Len(df.index)
           /\ IF Len(df.index) = 0
              THEN /\ df_analysis' = a
                   /\ report' = report
                   /\ pc' = "aborted"
              ELSE IF ~HasCol(df, "edad_grupo")
              THEN /\ df_analysis' = b
                   /\ report' = SubSeq(step8_report(Len(df.index), Len(a.index),
                                                    Len(b.index), Len(b.index)), 1, 2)
                   /\ pc' = "aborted"
              ELSE /\ df_analysis' = c
                   /\ report' = step8_report(Len(df.index), Len(a.index),
                                             Len(b.index), Len(c.index))
                   /\ pc' = "step9"
    /\ UNCHANGED <<run_vars, biv_vars, fig_vars, reg_vars, reads, xlsx, csv, df, data_source, out_file>>

\* ------------------------------------------------------------- STEP 9

\* The variables kept for analysis, in the order of the list.
analysis_vars ==
    << "folio", "p4", "edad_grupo", "edad_grupo_lbl", "hiv_knowledge_score",
       "knows_prep", "tested_hiv_12mo", "test_reason", "no_test_reason",
       "condom_use_freq", "condom_use_lbl", "always_condom", "ever_condom",
       "partners_last_year", "multiple_partners", "any_sti", "hiv_diagnosis", "p3" >>

\* df_analysis[analysis_vars] for the variables that exist.
df_out(f) ==
    LET keep == SelectSeq(analysis_vars, LAMBDA v : HasCol(f, v))
    IN  [index |-> f.index,
         columns |-> keep,
         col |-> [c \in Range(keep) |-> f.col[c]]]

\* to_excel(index=False): the rows by position, the labels not written.
to_excel(f) ==
    [index |-> [i \in 1..Len(f.index) |-> i],
     columns |-> f.columns,
     col |-> [c \in Range(f.columns) |-> [i \in 1..Len(f.index) |-> f.col[c][f.index[i]]]]]

\* The save adding its rows below those of a file that is already there.
Step9_append ==
    /\ pc = "step9"
    /\ out_file' =
          IF out_file = <<>> THEN << to_excel(df_out(df_analysis)) >>
          ELSE LET old == out_file[1]
                   new == to_excel(df_out(df_analysis))
               IN  << [index |-> [i \in 1..(Len(old.index) + Len(new.index)) |-> i],
                       columns |-> old.columns,
                       col |-> [c \in Range(old.columns) |->
                                  [i \in 1..(Len(old.index) + Len(new.index)) |->
                                      IF i <= Len(old.index) THEN old.col[c][i]
                                      ELSE new.col[c][i - Len(old.index)]]]] >>
    /\ pc' = "done"
    /\ UNCHANGED <<run_vars, biv_vars, fig_vars, reg_vars, reads, xlsx, csv, df, data_source, df_analysis, initial_n, report>>

Step9 ==
    /\ pc = "step9"
    /\ out_file' = << to_excel(df_out(df_analysis)) >>
    /\ pc' = "done"
    /\ UNCHANGED <<run_vars, biv_vars, fig_vars, reg_vars, reads, xlsx, csv, df, data_source, df_analysis, initial_n, report>>

\* The script started a second time on the same files: a fresh process, the
\* files as the first run left them.
Rerun ==
    /\ pc \in {"done", "aborted"}
    /\ run = 1
    /\ run' = 2
    /\ first_run' = << [pc |-> pc, out_file |-> out_file, report |-> report,
                        df_analysis |-> df_analysis, initial_n |-> initial_n,
                        data_source |-> data_source] >>
    /\ pc' = "step1"
    /\ df' = NoFrame
    /\ data_source' = ""
    /\ df_analysis' = NoFrame
    /\ initial_n' = 0
    /\ report' = <<>>
    /\ reads' = <<>>
    /\ UNCHANGED <<xlsx, csv, out_file, earlier2, earlier3, reg_vars, biv_vars, fig_vars>>

\* ------------------------------------------- 03_regression_models.py

\* pd.read_excel: the rows of the sheet under a fresh RangeIndex.
read_excel(f) ==
    [index |-> [i \in 1..Len(f.index) |-> i - 1],
     columns |-> f.columns,
     col |-> [c \in Range(f.columns) |-> [l \in 0..(Len(f.index) - 1) |-> f.col[c][l + 1]]]]

\* df[cols].dropna(): the rows with no missing cell in cols, labels kept.
dropna(f, cols) ==
    LET keep == SelectSeq(f.index, LAMBDA l : \A k \in 1..Len(cols) : notna(f.col[cols[k]][l]))
    IN  [index |-> keep,
         columns |-> cols,
         col |-> [c \in Range(cols) |-> [l \in Range(keep) |-> f.col[c][l]]]]

model1_columns == <<"always_condom", "edad_grupo", "hiv_knowledge_score">>

model2_columns ==
    <<"always_condom", "edad_grupo", "hiv_knowledge_score", "partners_last_year">>

\* Model 3 selected without the partner count.
model3_columns_no_partners ==
    <<"always_condom", "edad_grupo", "hiv_knowledge_score", "any_sti", "tested_hiv_12mo">>

model3_columns ==
    <<"always_condom", "edad_grupo", "hiv_knowledge_score", "partners_last_year",
      "any_sti", "tested_hiv_12mo">>

model4_columns ==
    <<"always_condom", "edad_grupo", "hiv_knowledge_score", "partners_last_year",
      "any_sti", "tested_hiv_12mo", "knows_prep">>

\* Model 5 selected with a column Model 2 does not select.
model5_columns_with_prep ==
    <<"always_condom", "edad_grupo", "hiv_knowledge_score", "partners_last_year",
      "knows_prep">>

model5_columns ==
    <<"always_condom", "edad_grupo", "hiv_knowledge_score", "partners_last_year">>

\* modelK_data's column list.
model_columns(k) ==
    CASE k = 1 -> model1_columns
      [] k = 2 -> model2_columns
      [] k = 3 -> model3_columns
      [] k = 4 -> model4_columns
      [] OTHER -> model5_columns

\* formulaK: the terms on the right of always_condom ~.
formula(k) ==
    CASE k = 1 -> {"edad_grupo", "hiv_knowledge_score"}
      [] k = 2 -> {"edad_grupo", "hiv_knowledge_score", "partners_last_year"}
      [] k = 3 -> {"edad_grupo", "hiv_knowledge_score", "partners_last_year",
                   "any_sti", "tested_hiv_12mo"}
      [] k = 4 -> {"edad_grupo", "hiv_knowledge_score", "partners_last_year",
                   "any_sti", "tested_hiv_12mo", "knows_prep"}
      [] OTHER -> {"edad_grupo", "hiv_knowledge_score", "partners_last_year",
                   "edad_grupo:hiv_knowledge_score"}

\* The outcomes logit(...).fit can have on a table: an empty table raises;
\* otherwise the optimiser returns a result (TRUE) or raises (FALSE: singular
\* matrix, perfect separation), which the table's numbers decide.
fit_outcomes(data) == IF Len(data.index) = 0 THEN {FALSE} ELSE BOOLEAN

\* The script reads the table 01_prepare_data.py saved; without the file
\* read_excel raises.
RegLoad ==
    /\ pc3 = "start"
    /\ pc \in {"done", "aborted"}
    /\ IF out_file = <<>>
       THEN df3' = df3 /\ pc3' = "aborted"
       ELSE df3' = read_excel(out_file[1]) /\ pc3' = "model1"
    /\ UNCHANGED <<model_data, lr_test, age_groups, age_stratified_results, fit_error,
                   workbook>>
    /\ UNCHANGED <<prep_vars, run_vars, biv_vars, fig_vars>>

\* modelK_data = df[columns].dropna(); modelK = logit(formulaK, modelK_data).fit().
\* A column that is not there (KeyError) and a fit that raises end the script.
fit_model(k, here, next, name) ==
    /\ pc3 = here
    /\ IF \E i \in 1..Len(model_columns(k)) : ~HasCol(df3, model_columns(k)[i])
       THEN /\ model_data' = model_data
            /\ fit_error' = fit_error
            /\ pc3' = "aborted"
       ELSE /\ model_data' = [model_data EXCEPT ![k] = << dropna(df3, model_columns(k)) >>]
            /\ \E result \in fit_outcomes(dropna(df3, model_columns(k))) :
                  IF result THEN fit_error' = fit_error /\ pc3' = next
                  ELSE fit_error' = <<name>> /\ pc3' = "aborted"
    /\ UNCHANGED <<df3, lr_test, age_groups, age_stratified_results, workbook>>
    /\ UNCHANGED <<prep_vars, run_vars, biv_vars, fig_vars>>

Model1 == fit_model(1, "model1", "model2", "Model 1")

Model2 == fit_model(2, "model2", "model3", "Model 2")

Model3 == fit_model(3, "model3", "model4", "Model 3")

Model4 == fit_model(4, "model4", "model5", "Model 4")

Model5 == fit_model(5, "model5", "lr_test", "Model 5")

\* The age-group labels in sorted order.
sorted_labels == <<"18-29", "30-39", "40-49", "50-59", "60-69", "70-79", "80+">>

\* sorted([a for a in df['edad_grupo_lbl'].unique() if pd.notna(a)])
sorted_age_groups(f) ==
    SelectSeq(sorted_labels,
              LAMBDA a : \E l \in Labels(f) : f.col["edad_grupo_lbl"][l] = a)

\* lr_test = -2 * (model2.llf - model5.llf): the statistic is kept as the two
\* fits it is taken from, each fit as the rows it was made on.  The
\* age-stratified section then lists the labels of the table.
LRTest ==
    /\ pc3 = "lr_test"
    /\ lr_test' = << [model2 |-> model_data[2][1].index, model5 |-> model_data[5][1].index] >>
    /\ IF ~HasCol(df3, "edad_grupo_lbl")
       THEN age_groups' = age_groups /\ pc3' = "aborted"
       ELSE age_groups' = sorted_age_groups(df3) /\ pc3' = "age_stratified"
    /\ UNCHANGED <<df3, model_data, age_stratified_results, fit_error, workbook>>
    /\ UNCHANGED <<prep_vars, run_vars, biv_vars, fig_vars>>

\* The minimum sample size of an age-stratified model.
min_sample_size == 30

\* The threshold taken as exclusive.
enough_cases_exclusive(n) == n > min_sample_size

\* if len(age_data) >= 30
enough_cases(n) == n >= min_sample_size

age_columns == <<"always_condom", "hiv_knowledge_score", "partners_last_year">>

\* age_data of a label: its rows, complete on the three model columns.
age_data(f, age) ==
    dropna(BoolIndex(f, [l \in Labels(f) |-> f.col["edad_grupo_lbl"][l] = age]),
           age_columns)

\* One pass of the loop over the labels: a label with enough complete cases is
\* fitted and appended to the results, any other label is passed over.
AgeStratum ==
    /\ pc3 = "age_stratified"
    /\ age_groups # <<>>
    /\ age_groups' = Tail(age_groups)
    /\ IF enough_cases(Len(age_data(df3, Head(age_groups)).index))
       THEN \E result \in fit_outcomes(age_data(df3, Head(age_groups))) :
               IF result
               THEN /\ age_stratified_results' =
                          Append(age_stratified_results,
                                 [Age_Group |-> Head(age_groups),
                                  N |-> Len(age_data(df3, Head(age_groups)).index)])
                    /\ fit_error' = fit_error
                    /\ pc3' = pc3
               ELSE /\ age_stratified_results' = age_stratified_results
                    /\ fit_error' = << Head(age_groups) >>
                    /\ pc3' = "aborted"
       ELSE UNCHANGED <<age_stratified_results, fit_error, pc3>>
    /\ UNCHANGED <<df3, model_data, lr_test, workbook>>
    /\ UNCHANGED <<prep_vars, run_vars, biv_vars, fig_vars>>

\* The sheets of the workbook, in the order they are written.
sheet_names ==
    <<"Model1_Age_Knowledge", "Model2_Add_Partners", "Model3_Add_STI_Testing",
      "Model4_Add_PrEP", "Model5_Interaction", "Age_Stratified", "Model_Comparison">>

\* The save block writing the complete cases of Model 4 to the path of the
\* analytic table as well.
Save_over_table ==
    /\ pc3 = "age_stratified"
    /\ age_groups = <<>>
    /\ workbook' = << [sheets |-> sheet_names,
                       Age_Stratified |-> age_stratified_results,
                       N |-> [k \in 1..5 |-> Len(model_data[k][1].index)]] >>
    /\ pc3' = "done"
    /\ out_file' = << to_excel(model_data[4][1]) >>
    /\ UNCHANGED <<df3, model_data, lr_test, age_groups, age_stratified_results, fit_error>>
    /\ UNCHANGED <<xlsx, csv, pc, df, data_source, df_analysis, initial_n, report, reads>>
    /\ UNCHANGED <<run_vars, biv_vars, fig_vars>>

\* The save block, reached when the loop has visited every label: the five
\* result tables, the age-stratified table and the comparison with each N.
Save ==
    /\ pc3 = "age_stratified"
    /\ age_groups = <<>>
    /\ workbook' = << [sheets |-> sheet_names,
                       Age_Stratified |-> age_stratified_results,
                       N |-> [k \in 1..5 |-> Len(model_data[k][1].index)]] >>
    /\ pc3' = "done"
    /\ UNCHANGED <<df3, model_data, lr_test, age_groups, age_stratified_results, fit_error>>
    /\ UNCHANGED <<prep_vars, run_vars, biv_vars, fig_vars>>

\* --------------------------------------- 02_bivariate_associations.py

\* The script reads the table 01_prepare_data.py saved; without the file
\* read_excel raises.
BivLoad ==
    /\ pc2 = "start"
    /\ pc \in {"done", "aborted"}
    /\ IF out_file = <<>>
       THEN df2' = df2 /\ pc2' = "aborted"
       ELSE df2' = read_excel(out_file[1]) /\ pc2' = "spearman"
    /\ UNCHANGED <<correlations, printed, chi2_results, age_groups2, kruskal, age_desc,
                   test_error, workbook2>>
    /\ UNCHANGED <<prep_vars, run_vars, reg_vars, fig_vars>>

\* continuous_vars: the predictors of the Spearman loop, in the order of the dict.
continuous_vars ==
    << [var |-> "edad_grupo", label |-> "Age group"],
       [var |-> "p4", label |-> "Age (years)"],
       [var |-> "hiv_knowledge_score", label |-> "HIV knowledge score"],
       [var |-> "partners_last_year", label |-> "Partners last year"] >>

\* var in df.columns and df[var].notna().any()
has_values(f, var) == HasCol(f, var) /\ \E l \in Labels(f) : notna(f.col[var][l])

RECURSIVE SumSeq(_)
SumSeq(s) == IF s = <<>> THEN 0 ELSE Head(s) + SumSeq(Tail(s))

\* Twice the average rank (rankdata) of the value at position i of column c.
rank2(f, c, i) ==
    2 * Cardinality({j \in 1..Len(f.index) : f.col[c][f.index[j]] < f.col[c][f.index[i]]})
    + Cardinality({j \in 1..Len(f.index) : f.col[c][f.index[j]] = f.col[c][f.index[i]]})
    + 1

\* n * sum(a*b) - sum(a) * sum(b) over the ranks of two columns: the sign of
\* their covariance.
rank_cov(f, a, b) ==
    Len(f.index) * SumSeq([i \in 1..Len(f.index) |-> rank2(f, a, i) * rank2(f, b, i)])
    - SumSeq([i \in 1..Len(f.index) |-> rank2(f, a, i)])
      * SumSeq([i \in 1..Len(f.index) |-> rank2(f, b, i)])

\* spearmanr(valid[var], valid['condom_use_freq']): the coefficient by its
\* sign; not a number when one of the two columns is constant.
spearmanr(f, var) ==
    IF rank_cov(f, var, var) = 0 \/ rank_cov(f, "condom_use_freq", "condom_use_freq") = 0
    THEN "nan"
    ELSE IF rank_cov(f, var, "condom_use_freq") < 0 THEN "negative"
    ELSE IF rank_cov(f, var, "condom_use_freq") > 0 THEN "positive"
    ELSE "zero"

\* 'More use' whenever the coefficient is not positive.
interpretation_not_positive(rho) == IF rho # "positive" THEN "More use" ELSE "Less use"

\* 'More use' if rho < 0 else 'Less use'
interpretation(rho) == IF rho = "negative" THEN "More use" ELSE "Less use"

\* The direction line printed: higher variable, lower condom use if rho > 0,
\* else higher variable, higher condom use.
direction(rho) ==
    IF rho = "positive" THEN "up variable -> down condom use"
    ELSE "up variable -> up condom use"

\* valid = df[[var, 'condom_use_freq']].dropna()
valid(f, var) == dropna(f, <<var, "condom_use_freq">>)

\* The predictors the Spearman loop computes a coefficient for.
correlated(f) ==
    SelectSeq(continuous_vars,
              LAMBDA v : has_values(f, v.var) /\ Len(valid(f, v.var).index) > 0)

\* The Spearman loop: a row of the table and a printed direction for each
\* predictor that has pairwise-complete rows.
Spearman ==
    /\ pc2 = "spearman"
    /\ correlations' =
          [i \in 1..Len(correlated(df2)) |->
              [Variable |-> correlated(df2)[i].label,
               Spearman_rho |-> spearmanr(valid(df2, correlated(df2)[i].var),
                                          correlated(df2)[i].var),
               N |-> Len(valid(df2, correlated(df2)[i].var).index),
               Interpretation |->
                   interpretation(spearmanr(valid(df2, correlated(df2)[i].var),
                                            correlated(df2)[i].var))]]
    /\ printed' =
          [i \in 1..Len(correlated(df2)) |->
              [Variable |-> correlated(df2)[i].label,
               direction |-> direction(spearmanr(valid(df2, correlated(df2)[i].var),
                                                 correlated(df2)[i].var))]]
    /\ pc2' = "chi2"
    /\ UNCHANGED <<df2, chi2_results, age_groups2, kruskal, age_desc, test_error, workbook2>>
    /\ UNCHANGED <<prep_vars, run_vars, reg_vars, fig_vars>>

\* binary_predictors: the predictors of the chi-square loop, in the order of
\* the dict.
binary_predictors ==
    << [var |-> "multiple_partners", label |-> "Multiple partners (>=2)"],
       [var |-> "any_sti", label |-> "Any STI diagnosis"],
       [var |-> "tested_hiv_12mo", label |-> "Tested HIV (12mo)"],
       [var |-> "knows_prep", label |-> "PrEP awareness"] >>

\* pd.crosstab(df[var], df['condom_use_lbl']): the rows that have both cells,
\* and the categories of each side among them.
crosstab(f, var) ==
    LET pairs == {l \in Labels(f) :
                     notna(f.col[var][l]) /\ f.col["condom_use_lbl"][l] # NaNLabel}
    IN  [pairs |-> pairs,
         rows |-> {f.col[var][l] : l \in pairs},
         columns |-> {f.col["condom_use_lbl"][l] : l \in pairs}]

\* The test run as soon as one side of the table has two categories.
chi2_runs_either(f, var) ==
    /\ has_values(f, var)
    /\ \/ Cardinality(crosstab(f, var).rows) > 1
       \/ Cardinality(crosstab(f, var).columns) > 1

\* The two guards of the chi-square loop: the column has a value, and
\* ct.shape[0] > 1 and ct.shape[1] > 1.
chi2_runs(f, var) ==
    /\ has_values(f, var)
    /\ Cardinality(crosstab(f, var).rows) > 1
    /\ Cardinality(crosstab(f, var).columns) > 1

\* The chi-square loop: a row for each predictor whose table is at least 2 x 2.
ChiSquare ==
    /\ pc2 = "chi2"
    /\ chi2_results' =
          LET tested == SelectSeq(binary_predictors, LAMBDA v : chi2_runs(df2, v.var))
          IN  [i \in 1..Len(tested) |->
                  [Predictor |-> tested[i].label,
                   df |-> (Cardinality(crosstab(df2, tested[i].var).rows) - 1)
                          * (Cardinality(crosstab(df2, tested[i].var).columns) - 1),
                   N |-> Cardinality(crosstab(df2, tested[i].var).pairs)]]
    /\ pc2' = "kruskal"
    /\ UNCHANGED <<df2, correlations, printed, age_groups2, kruskal, age_desc, test_error,
                   workbook2>>
    /\ UNCHANGED <<prep_vars, run_vars, reg_vars, fig_vars>>

\* df['edad_grupo_lbl'].dropna().unique(): the labels in order of first
\* appearance.
unique_labels(f) ==
    LET firsts == SelectSeq(f.index,
                            LAMBDA l : /\ f.col["edad_grupo_lbl"][l] # NaNLabel
                                       /\ \A m \in Labels(f) :
                                             m < l => f.col["edad_grupo_lbl"][m]
                                                        # f.col["edad_grupo_lbl"][l])
    IN  [i \in 1..Len(firsts) |-> f.col["edad_grupo_lbl"][firsts[i]]]

\* group_data of a label: the rows of the label with condom_use_freq defined.
group_data(f, age) ==
    {l \in Labels(f) : f.col["edad_grupo_lbl"][l] = age /\ notna(f.col["condom_use_freq"][l])}

\* The test run with a single group.
kruskal_runs_single(groups) == Len(groups) > 0

\* if len(age_groups) > 1
kruskal_runs(groups) == Len(groups) > 1

\* The outcomes kruskal(*age_groups) can have: it returns (TRUE), or, when
\* every observation has the same value, returns or raises (FALSE) with the
\* version of the library.
kruskal_outcomes(f, groups) ==
    IF \A a \in Range(groups), b \in Range(groups) :
           \A l \in group_data(f, a), m \in group_data(f, b) :
               f.col["condom_use_freq"][l] = f.col["condom_use_freq"][m]
    THEN BOOLEAN ELSE {TRUE}

\* The Kruskal-Wallis block: the labels with at least one observation are
\* compared when there are two or more, and the descriptive table by age is
\* made with the test.
KruskalWallis ==
    /\ pc2 = "kruskal"
    /\ age_groups2' = SelectSeq(unique_labels(df2), LAMBDA a : group_data(df2, a) # {})
    /\ IF kruskal_runs(age_groups2')
       THEN \E result \in kruskal_outcomes(df2, age_groups2') :
               IF result
               THEN /\ kruskal' = << age_groups2' >>
                    /\ age_desc' = << [a \in Range(unique_labels(df2)) |->
                                          Cardinality(group_data(df2, a))] >>
                    /\ test_error' = test_error
                    /\ pc2' = "save"
               ELSE /\ kruskal' = kruskal
                    /\ age_desc' = age_desc
                    /\ test_error' = << "kruskal" >>
                    /\ pc2' = "aborted"
       ELSE /\ UNCHANGED <<kruskal, age_desc, test_error>>
            /\ pc2' = "save"
    /\ UNCHANGED <<df2, correlations, printed, chi2_results, workbook2>>
    /\ UNCHANGED <<prep_vars, run_vars, reg_vars, fig_vars>>

\* The save block: the result tables, and the descriptive table by age when
\* the Kruskal-Wallis block made one.
BivSave ==
    /\ pc2 = "save"
    /\ workbook2' = << [sheets |-> <<"Correlations", "Chi_Square_Tests",
                                     "Group_Comparisons", "Correlation_Matrix">>
                                   \o (IF age_desc # <<>> THEN <<"Condom_Use_by_Age">>
                                       ELSE <<>>)
                                   \o <<"Summary_Statistics">>,
                        Correlations |-> correlations,
                        Chi_Square_Tests |-> chi2_results] >>
    /\ pc2' = "done"
    /\ UNCHANGED <<df2, correlations, printed, chi2_results, age_groups2, kruskal, age_desc,
                   test_error>>
    /\ UNCHANGED <<prep_vars, run_vars, reg_vars, fig_vars>>

\* The script started once more on the same files: a fresh process, the
\* workbook of the earlier run still on disk.
BivRerun ==
    /\ pc2 \in {"done", "aborted"}
    /\ earlier2 = <<>>
    /\ earlier2' = << [pc |-> pc2, df |-> df2, correlations |-> correlations,
                       printed |-> printed, chi2_results |-> chi2_results,
                       age_groups |-> age_groups2, kruskal |-> kruskal,
                       age_desc |-> age_desc, test_error |-> test_error,
                       workbook |-> workbook2] >>
    /\ pc2' = "start"
    /\ df2' = NoFrame
    /\ correlations' = <<>>
    /\ printed' = <<>>
    /\ chi2_results' = <<>>
    /\ age_groups2' = <<>>
    /\ kruskal' = <<>>
    /\ age_desc' = <<>>
    /\ test_error' = <<>>
    /\ UNCHANGED <<workbook2, run, first_run, earlier3>>
    /\ UNCHANGED <<prep_vars, reg_vars, fig_vars>>

\* 03_regression_models.py started once more on the same files.
RegRerun ==
    /\ pc3 \in {"done", "aborted"}
    /\ earlier3 = <<>>
    /\ earlier3' = << [pc |-> pc3, df |-> df3, model_data |-> model_data,
                       lr_test |-> lr_test,
                       age_stratified_results |-> age_stratified_results,
                       fit_error |-> fit_error, workbook |-> workbook] >>
    /\ pc3' = "start"
    /\ df3' = NoFrame
    /\ model_data' = [k \in 1..5 |-> <<>>]
    /\ lr_test' = <<>>
    /\ age_groups' = <<>>
    /\ age_stratified_results' = <<>>
    /\ fit_error' = <<>>
    /\ UNCHANGED <<workbook, run, first_run, earlier2>>
    /\ UNCHANGED <<prep_vars, biv_vars, fig_vars>>

\* ------------------------------------------------ 04_visualizations.py

\* The script reads the analytic table; without the file read_excel raises.
VisLoad ==
    /\ pc4 = "start"
    /\ pc \in {"done", "aborted"}
    /\ IF out_file = <<>>
       THEN df4' = df4 /\ pc4' = "aborted"
       ELSE df4' = read_excel(out_file[1]) /\ pc4' = "figure1"
    /\ UNCHANGED <<figures, pc5, prisma>>
    /\ UNCHANGED <<prep_vars, run_vars, reg_vars, biv_vars>>

\* The column order every stacked bar chart asks of its cross-tabulation.
use_order == <<"Always", "Sometimes", "Never">>

\* pd.crosstab(rows, df['condom_use_lbl'])[['Always', 'Sometimes', 'Never']]:
\* a KeyError unless each of the three labels occurs in a row that has a row
\* category.
has_use_columns(f, in_row) ==
    \A u \in Range(use_order) :
        \E l \in Labels(f) : in_row[l] /\ f.col["condom_use_lbl"][l] = u

\* The four panels of figure 1 can be drawn: the columns are there and the
\* cross-tabulations by age label, by partner bin (0, 100] and by knowledge
\* bin (-0.1, 6] have the three condom-use columns.
figure1_drawn(f) ==
    /\ \A c \in {"edad_grupo_lbl", "condom_use_lbl", "partners_last_year",
                 "always_condom", "hiv_knowledge_score"} : HasCol(f, c)
    /\ has_use_columns(f, [l \in Labels(f) |-> f.col["edad_grupo_lbl"][l] # NaNLabel])
    /\ has_use_columns(f, [l \in Labels(f) |->
                              /\ f.col["partners_last_year"][l] # NaN
                              /\ f.col["partners_last_year"][l] > 0
                              /\ f.col["partners_last_year"][l] <= 100])
    /\ has_use_columns(f, [l \in Labels(f) |->
                              /\ f.col["hiv_knowledge_score"][l] # NaN
                              /\ f.col["hiv_knowledge_score"][l] >= 0
                              /\ f.col["hiv_knowledge_score"][l] <= 6])

\* The two panels of figure 4 can be drawn: the cross-tabulations by testing
\* status and by PrEP awareness (codes 0 and 1) have the three columns.
figure4_drawn(f) ==
    /\ \A c \in {"tested_hiv_12mo", "knows_prep"} : HasCol(f, c)
    /\ has_use_columns(f, [l \in Labels(f) |-> f.col["tested_hiv_12mo"][l] \in {0, 1}])
    /\ has_use_columns(f, [l \in Labels(f) |-> f.col["knows_prep"][l] \in {0, 1}])

\* One figure: drawn and saved, or the exception that ends the script.
draw(here, next, drawn, name) ==
    /\ pc4 = here
    /\ IF drawn
       THEN figures' = figures \cup {name} /\ pc4' = next
       ELSE figures' = figures /\ pc4' = "aborted"
    /\ UNCHANGED <<df4, pc5, prisma>>
    /\ UNCHANGED <<prep_vars, run_vars, reg_vars, biv_vars>>

Figure1 == draw("figure1", "figure2", figure1_drawn(df4), "figure1_condom_use_patterns.png")

\* Figure 2 reads the sheet Model4_Add_PrEP of the regression workbook.
Figure2 ==
    draw("figure2", "figure3",
         workbook # <<>> /\ "Model4_Add_PrEP" \in Range(workbook[1].sheets),
         "figure2_regression_forest_plot.png")

\* Figure 3 reads the sheet Age_Stratified, which has no Knowledge_OR column
\* when no age group was fitted.
Figure3 ==
    draw("figure3", "figure4",
         /\ workbook # <<>>
         /\ "Age_Stratified" \in Range(workbook[1].sheets)
         /\ workbook[1].Age_Stratified # <<>>,
         "figure3_age_stratified_effects.png")

Figure4 ==
    draw("figure4", "figure5", figure4_drawn(df4), "figure4_testing_prep_condom_use.png")

\* Figure 5 draws the age gradient again and the percentages by partner count.
Figure5 ==
    draw("figure5", "done", HasCol(df4, "condom_use_freq"), "figure5_manuscript_simple.png")

\* ------------------------------------------------ 05_prisma_diagram.py

\* The numbers in the boxes of the flow diagram, as the script writes them.
prisma_counts ==
    [enrolled |-> 20392, excluded1 |-> 7517, remaining1 |-> 12875,
     excluded2 |-> 110, remaining2 |-> 12765, excluded3 |-> 0,
     final |-> 12765, final_pct |-> 626]

\* The whole script: it reads no file, draws the two diagrams and saves them.
Prisma ==
    /\ pc5 = "start"
    /\ prisma' = << prisma_counts >>
    /\ figures' = figures \cup {"prisma_flowchart.png", "prisma_flowchart_simple.png"}
    /\ pc5' = "done"
    /\ UNCHANGED <<pc4, df4>>
    /\ UNCHANGED <<prep_vars, run_vars, reg_vars, biv_vars>>

\* ------------------------------------------------------------- inputs

\* The raw codes of P73: Always, Sometimes, Never, the two sentinels, blank.
P73Codes == {NaN, 1, 2, 3, 9, 99}

\* The raw values of P71 around the cap and the sentinel, and blank.
P71Values == {NaN} \cup (0 .. 102) \cup {999, 1000}

\* The raw codes of a P212 item: true, false, the two sentinels, blank.
ItemCodes == {NaN, 1, 2, 9, 99}

\* The age-group codes a pre-aggregated table brings: first and last bin, blank.
AgeCodes == {NaN, 1, 7}

ItemNames == [k \in 1..Len(hiv_items) |-> hiv_items[k].item]

\* A table of n respondents, labelled 0..n-1 (a RangeIndex), with the columns
\* folio, p73, p71, edad_grupo and the item columns named in items.
Table(n, p73, p71, edad, present, items) ==
    LET labels == [i \in 1..n |-> i - 1]
        itemCols == SelectSeq(ItemNames, LAMBDA c : c \in present)
    IN  [index |-> labels,
         columns |-> <<"folio", "p73", "p71", "edad_grupo">> \o itemCols,
         col |-> [c \in {"folio", "p73", "p71", "edad_grupo"} \cup present |->
                     IF c = "folio" THEN [l \in 0..(n - 1) |-> 1000 + l]
                     ELSE IF c = "p73" THEN p73
                     ELSE IF c = "p71" THEN p71
                     ELSE IF c = "edad_grupo" THEN edad
                     ELSE items[c]]]

\* The table of the given rows (each a function from column name to cell),
\* labelled 0..n-1.
FromRows(columns, rows) ==
    [index |-> [i \in 1..Len(rows) |-> i - 1],
     columns |-> columns,
     col |-> [c \in Range(columns) |-> [l \in 0..(Len(rows) - 1) |-> rows[l + 1][c]]]]

\* The raw ages of the CSV: blank, text that is no number, and 0..MaxAge.
RawAges == {NaN, NotANumber} \cup (0 .. MaxAge)

\* No run of 01_prepare_data.py before this one, and the other scripts not
\* started.
InitOther ==
    /\ run = 1
    /\ first_run = <<>>
    /\ pc2 = "start"
    /\ df2 = NoFrame
    /\ correlations = <<>>
    /\ printed = <<>>
    /\ chi2_results = <<>>
    /\ age_groups2 = <<>>
    /\ kruskal = <<>>
    /\ age_desc = <<>>
    /\ test_error = <<>>
    /\ workbook2 = <<>>
    /\ pc4 = "start"
    /\ df4 = NoFrame
    /\ figures = {}
    /\ pc5 = "start"
    /\ prisma = <<>>
    /\ earlier2 = <<>>
    /\ earlier3 = <<>>

InitRun ==
    /\ InitOther
    /\ pc = "step1"
    /\ df = NoFrame
    /\ data_source = ""
    /\ df_analysis = NoFrame
    /\ initial_n = 0
    /\ report = <<>>
    /\ out_file = <<>>
    /\ reads = <<>>
    /\ pc3 = "start"
    /\ df3 = NoFrame
    /\ model_data = [k \in 1..5 |-> <<>>]
    /\ lr_test = <<>>
    /\ age_groups = <<>>
    /\ age_stratified_results = <<>>
    /\ fit_error = <<>>
    /\ workbook = <<>>

\* The cohort runs: a readable Excel table of up to MaxRows respondents that
\* differ in the three fields the cohort filter reads; no knowledge item column.
Init ==
    /\ InitRun
    /\ csv = <<>>
    /\ \E n \in 0..MaxRows :
         \E p73 \in [0..(n - 1) -> {NaN, 1, 3, 9}],
            p71 \in [0..(n - 1) -> {NaN, 0, 1, 999}],
            edad \in [0..(n - 1) -> {NaN, 2}] :
            xlsx = << Table(n, p73, p71, edad, {}, <<>>) >>

\* The respondent runs: a readable Excel table of one respondent over every raw
\* code of P73, P71 and the age group, with the fourth knowledge item present
\* or not.
InitRespondent ==
    /\ InitRun
    /\ csv = <<>>
    /\ \E p73 \in P73Codes, p71 \in P71Values, edad \in AgeCodes :
         \E present \in SUBSET {"i_4_p212"} :
            \E codes \in [present -> ItemCodes] :
               xlsx = << Table(1, [l \in {0} |-> p73], [l \in {0} |-> p71],
                               [l \in {0} |-> edad], present,
                               [c \in present |-> [l \in {0} |-> codes[c]]]) >>

\* The score runs: a readable Excel table of one respondent over every set of
\* item columns and every code of each item present.
InitScore ==
    /\ InitRun
    /\ csv = <<>>
    /\ \E present \in SUBSET Range(ItemNames) :
         \E codes \in [present -> ItemCodes] :
            xlsx = << Table(1, [l \in {0} |-> 1], [l \in {0} |-> 1],
                            [l \in {0} |-> 1], present,
                            [c \in present |-> [l \in {0} |-> codes[c]]]) >>

\* The load runs: the Excel table unreadable or holding one respondent whose
\* age group (any code) comes with a raw age of 34; the CSV unreadable or
\* holding one respondent of any raw age and no age group.
InitLoad ==
    /\ InitRun
    /\ \/ xlsx = <<>>
       \/ \E edad \in AgeCodes :
             xlsx = << FromRows(<<"folio", "p4", "p73", "p71", "edad_grupo">>,
                                << [folio |-> 1000, p4 |-> 34, p73 |-> 1, p71 |-> 1,
                                    edad_grupo |-> edad] >>) >>
    /\ \/ csv = <<>>
       \/ \E age \in RawAges :
             csv = << FromRows(<<"folio", "p4", "p73", "p71">>,
                               << [folio |-> 1000, p4 |-> age, p73 |-> 1, p71 |-> 1] >>) >>

\* A raw column left out of the input table.
Absent == -3

\* The one column of that name, or none when its cell is Absent.
Opt(name, v) == IF v = Absent THEN <<>> ELSE <<name>>

\* The optional-column runs: one respondent; either every optional column
\* (summary STI, two per-disease columns in either order, P208, P210, P211,
\* P213, the first knowledge item) left out or holding a code, with P73 and
\* P71 answered; or no optional column and P73, P71 blank, answered or
\* sentinel.
InitOptional ==
    /\ InitRun
    /\ csv = <<>>
    /\ \/ \E its \in {Absent, NaN, 1, 2}, vih \in {Absent, NaN, 1, 2},
             sif \in {Absent, 1, 2}, vih_first \in BOOLEAN,
             p208 \in {Absent, NaN, 1, 9}, p210 \in {Absent, 3, 99},
             p211 \in {Absent, NaN, 4}, p213 \in {Absent, 1, 2, 99},
             item \in {Absent, 1, 2} :
             xlsx = << FromRows(
                 <<"folio", "p73", "p71", "edad_grupo">>
                     \o Opt("its_alguna_vez", its)
                     \o (IF vih_first THEN Opt("p202_vih", vih) \o Opt("p202_sifilis", sif)
                                      ELSE Opt("p202_sifilis", sif) \o Opt("p202_vih", vih))
                     \o Opt("p208", p208) \o Opt("p210", p210)
                     \o Opt("p211", p211) \o Opt("p213", p213)
                     \o Opt(ItemNames[1], item),
                 << [c \in {"folio", "p73", "p71", "edad_grupo", "its_alguna_vez",
                            "p202_vih", "p202_sifilis", "p208", "p210", "p211", "p213",
                            ItemNames[1]} |->
                        CASE c = "folio" -> 1000
                          [] c \in {"p73", "p71", "edad_grupo"} -> 1
                          [] c = "its_alguna_vez" -> its
                          [] c = "p202_vih" -> vih
                          [] c = "p202_sifilis" -> sif
                          [] c = "p208" -> p208
                          [] c = "p210" -> p210
                          [] c = "p211" -> p211
                          [] c = "p213" -> p213
                          [] OTHER -> item] >>) >>
       \/ \E p73 \in {NaN, 1, 3, 9, 99}, p71 \in {NaN, 0, 2, 999, 1000} :
             xlsx = << FromRows(<<"folio", "p73", "p71", "edad_grupo">>,
                                << [folio |-> 1000, p73 |-> p73, p71 |-> p71,
                                    edad_grupo |-> 1] >>) >>

\* A row of the analytic table, with the columns the regression script reads.
AnalyticRow(always, edad, score, partners, tested, prep) ==
    [always_condom |-> always, edad_grupo |-> edad, edad_grupo_lbl |-> age_labels(edad),
     hiv_knowledge_score |-> score, partners_last_year |-> partners, any_sti |-> 0,
     tested_hiv_12mo |-> tested, knows_prep |-> prep]

\* n copies of a row.
Repeat(row, n) == [i \in 1..n |-> row]

\* The regression runs: the data preparation has ended and left an analytic
\* table on disk, made of blocks of like respondents: two age groups with
\* none, one fewer than, or exactly the minimum sample size of complete
\* respondents, and at most one respondent each without partner count,
\* PrEP answer, testing answer, age group or outcome.
InitRegression ==
    /\ InitOther
    /\ xlsx = <<>>
    /\ csv = <<>>
    /\ pc = "done"
    /\ df = NoFrame
    /\ data_source = ""
    /\ df_analysis = NoFrame
    /\ initial_n = 0
    /\ report = <<>>
    /\ reads = <<>>
    /\ pc3 = "start"
    /\ df3 = NoFrame
    /\ model_data = [k \in 1..5 |-> <<>>]
    /\ lr_test = <<>>
    /\ age_groups = <<>>
    /\ age_stratified_results = <<>>
    /\ fit_error = <<>>
    /\ workbook = <<>>
    /\ \E a \in {0, min_sample_size - 1, min_sample_size},
          b \in {0, min_sample_size - 1, min_sample_size},
          c \in 0..1, d \in 0..1, e \in 0..1, g \in 0..1, h \in 0..1 :
          out_file = << to_excel(FromRows(
              <<"edad_grupo", "edad_grupo_lbl", "hiv_knowledge_score", "knows_prep",
                "tested_hiv_12mo", "always_condom", "partners_last_year", "any_sti">>,
              Repeat(AnalyticRow(1, 1, 6, 1, 1, 1), a)
                  \o Repeat(AnalyticRow(0, 2, 3, 2, 1, 1), b)
                  \o Repeat(AnalyticRow(1, 1, 6, NaN, 1, 1), c)
                  \o Repeat(AnalyticRow(0, 2, 3, 2, 1, NaN), d)
                  \o Repeat(AnalyticRow(0, 2, 3, 2, NaN, 1), e)
                  \o Repeat(AnalyticRow(1, NaN, 6, 1, 1, 1), g)
                  \o Repeat(AnalyticRow(NaN, 1, 6, 1, 1, 1), h))) >>

\* The pipeline runs: both scripts, from an Excel source that is unreadable or
\* holds up to MaxRows like respondents, with P208 and P213 there or not.
InitPipeline ==
    /\ InitRun
    /\ csv = <<>>
    /\ \/ xlsx = <<>>
       \/ \E n \in 1..MaxRows, p73 \in {1, 3}, p71 \in {NaN, 1},
             p208 \in {Absent, 1}, p213 \in {Absent, 1, 9} :
             xlsx = << FromRows(
                 <<"folio", "p73", "p71", "edad_grupo">> \o Opt("p208", p208)
                     \o Opt("p213", p213),
                 Repeat([folio |-> 1000, p73 |-> p73, p71 |-> p71, edad_grupo |-> 1,
                         p208 |-> p208, p213 |-> p213], n)) >>

\* The sample runs: both scripts, from an Excel source of 1..MaxRows
\* respondents that differ in P73 (blank, answered, sentinel), P71 (blank,
\* answered) and the age group (blank, coded), with P208 and P213 answered.
InitSample ==
    /\ InitRun
    /\ csv = <<>>
    /\ \E n \in 1..MaxRows :
          \E rows \in [1..n -> {[folio |-> 1000, p73 |-> a, p71 |-> b, edad_grupo |-> c,
                                 p208 |-> 1, p213 |-> 1] :
                                    a \in {NaN, 1, 9}, b \in {NaN, 2}, c \in {NaN, 1}}] :
             xlsx = << FromRows(<<"folio", "p73", "p71", "edad_grupo", "p208", "p213">>,
                                rows) >>

\* A row of the analytic table with the columns the bivariate script reads.
BivRow(edad, freq, partners, prep) ==
    [edad_grupo |-> edad, edad_grupo_lbl |-> age_labels(edad),
     hiv_knowledge_score |-> 3, knows_prep |-> prep, tested_hiv_12mo |-> NaN,
     condom_use_freq |-> freq, condom_use_lbl |-> condom_use_lbl(freq),
     always_condom |-> always_condom(freq), partners_last_year |-> partners,
     multiple_partners |-> multiple_partners(partners), any_sti |-> 0]

\* The columns of the analytic table of the bivariate runs: no p4 column.
BivColumns ==
    <<"edad_grupo", "edad_grupo_lbl", "hiv_knowledge_score", "knows_prep",
      "tested_hiv_12mo", "condom_use_freq", "condom_use_lbl", "always_condom",
      "partners_last_year", "multiple_partners", "any_sti">>

\* The bivariate runs: the data preparation has ended and left an analytic
\* table on disk (no p4 column, no testing answer) of up to MaxRows + 1
\* respondents, who differ in condom use and in the partner count, or in the
\* PrEP answer, or in the age group.
InitBivariate ==
    /\ InitOther
    /\ xlsx = <<>>
    /\ csv = <<>>
    /\ pc = "done"
    /\ df = NoFrame
    /\ data_source = ""
    /\ df_analysis = NoFrame
    /\ initial_n = 0
    /\ report = <<>>
    /\ reads = <<>>
    /\ pc3 = "start"
    /\ df3 = NoFrame
    /\ model_data = [k \in 1..5 |-> <<>>]
    /\ lr_test = <<>>
    /\ age_groups = <<>>
    /\ age_stratified_results = <<>>
    /\ fit_error = <<>>
    /\ workbook = <<>>
    /\ \E n \in 0..(MaxRows + 1) :
          \/ \E rows \in [1..n -> {BivRow(1, freq, partners, 1) :
                                    freq \in {NaN, 1, 2}, partners \in {NaN, 1, 2, 3}}] :
                out_file = << to_excel(FromRows(BivColumns, rows)) >>
          \/ \E rows \in [1..n -> {BivRow(1, freq, 1, prep) :
                                    freq \in {NaN, 1, 3}, prep \in {NaN, 0, 1}}] :
                out_file = << to_excel(FromRows(BivColumns, rows)) >>
          \/ \E rows \in [1..n -> {BivRow(edad, freq, 1, 1) :
                                    edad \in {NaN, 1, 2, 3}, freq \in {NaN, 1, 3}}] :
                out_file = << to_excel(FromRows(BivColumns, rows)) >>

\* A row of the analytic sample with an answer on HIV testing.
StageRow(edad, freq, tested) ==
    [BivRow(edad, freq, 1, 1) EXCEPT !.tested_hiv_12mo = tested]

\* The later-stage runs: the data preparation stands before its save with an
\* analysis sample of 1..MaxRows respondents, or of an age group large enough
\* to be fitted, where the three condom-use answers occur, and one respondent
\* of another age group, or it has ended without a table.
InitStages ==
    /\ InitOther
    /\ xlsx = <<>>
    /\ csv = <<>>
    /\ df = NoFrame
    /\ data_source = ""
    /\ reads = <<>>
    /\ out_file = <<>>
    /\ pc3 = "start"
    /\ df3 = NoFrame
    /\ model_data = [k \in 1..5 |-> <<>>]
    /\ lr_test = <<>>
    /\ age_groups = <<>>
    /\ age_stratified_results = <<>>
    /\ fit_error = <<>>
    /\ workbook = <<>>
    /\ \/ /\ pc = "aborted"
          /\ df_analysis = NoFrame
          /\ initial_n = 0
          /\ report = <<>>
       \/ /\ pc = "step9"
          /\ \/ \E n \in 1..MaxRows :
                   \E rows \in [1..n -> {StageRow(1, freq, 1) : freq \in {1, 3}}] :
                      df_analysis = FromRows(BivColumns, rows)
             \/ df_analysis = FromRows(BivColumns,
                    Repeat(StageRow(1, 1, 1), min_sample_size - 2)
                        \o <<StageRow(1, 2, 1), StageRow(1, 3, 0), StageRow(2, 3, 1)>>)
          /\ initial_n = Len(df_analysis.index)
          /\ report = step8_report(initial_n, initial_n, initial_n, initial_n)

Next ==
    \/ Step1
    \/ Step2
    \/ Step3
    \/ Step4
    \/ Step5
    \/ Step6
    \/ Step7
    \/ Step8
    \/ Step9

Spec == Init /\ [][Next]_vars

SpecRespondent == InitRespondent /\ [][Next]_vars

SpecScore == InitScore /\ [][Next]_vars

SpecLoad == InitLoad /\ [][Next]_vars

SpecOptional == InitOptional /\ [][Next]_vars

\* The steps of 03_regression_models.py.
NextRegression ==
    \/ RegLoad \/ Model1 \/ Model2 \/ Model3 \/ Model4 \/ Model5
    \/ LRTest \/ AgeStratum \/ Save

\* 01_prepare_data.py, then 03_regression_models.py.
NextPipeline ==
    \/ Step1 \/ Step2 \/ Step3 \/ Step4 \/ Step5 \/ Step6 \/ Step7 \/ Step8 \/ Step9
    \/ RegLoad \/ Model1 \/ Model2 \/ Model3 \/ Model4 \/ Model5
    \/ LRTest \/ AgeStratum \/ Save

SpecRegression == InitRegression /\ [][NextRegression]_vars

SpecPipeline == InitPipeline /\ [][NextPipeline]_vars

SpecSample == InitSample /\ [][NextPipeline]_vars

\* The steps of 02_bivariate_associations.py.
NextBivariate == BivLoad \/ Spearman \/ ChiSquare \/ KruskalWallis \/ BivSave

SpecBivariate == InitBivariate /\ [][NextBivariate]_vars

\* A script that is not in the middle of a run.
idle(p) == p \in {"start", "done", "aborted"}

\* The save of 01_prepare_data.py, then the four later scripts run from the
\* command line one at a time, in any order, the bivariate and the regression
\* script up to twice.
BivStart == idle(pc3) /\ idle(pc4) /\ BivLoad

RegStart == idle(pc2) /\ idle(pc4) /\ RegLoad

VisStart == idle(pc2) /\ idle(pc3) /\ VisLoad

PrismaStart == idle(pc2) /\ idle(pc3) /\ idle(pc4) /\ Prisma

NextStages ==
    \/ Step9
    \/ BivStart \/ Spearman \/ ChiSquare \/ KruskalWallis \/ BivSave \/ BivRerun
    \/ RegStart \/ Model1 \/ Model2 \/ Model3 \/ Model4 \/ Model5
    \/ LRTest \/ AgeStratum \/ Save \/ RegRerun
    \/ VisStart \/ Figure1 \/ Figure2 \/ Figure3 \/ Figure4 \/ Figure5
    \/ PrismaStart

SpecStages == InitStages /\ [][NextStages]_vars

\* 01_prepare_data.py and 05_prisma_diagram.py.
NextPrisma ==
    \/ Step1 \/ Step2 \/ Step3 \/ Step4 \/ Step5 \/ Step6 \/ Step7 \/ Step8 \/ Step9
    \/ Prisma

SpecPrisma == InitSample /\ [][NextPrisma]_vars

\* 01_prepare_data.py run once and then once more.
NextRerun ==
    \/ Step1 \/ Step2 \/ Step3 \/ Step4 \/ Step5 \/ Step6 \/ Step7 \/ Step8 \/ Step9
    \/ Rerun

\* The rerun runs: the cohort tables and the load inputs.
InitRerun == Init \/ InitLoad

SpecRerun == InitRerun /\ [][NextRerun]_vars

\* ------------------------------------------------------------- claims

\* C1: once STEP 2 has run, hiv_knowledge_score of every respondent is a
\* defined integer from 0 to 6, whichever item columns are present and
\* whatever the item codes (1, 2, 9, 99 or missing).
C1_ScoreDefinedInRange ==
    HasCol(df, "hiv_knowledge_score") =>
        \A l \in Labels(df) :
            /\ notna(df.col["hiv_knowledge_score"][l])
            /\ df.col["hiv_knowledge_score"][l] \in 0..6

\* C1 witness: a scored respondent with an item column absent, an item blank
\* and an item holding a sentinel.
C1_Witness ==
    /\ HasCol(df, "hiv_knowledge_score")
    /\ ~HasCol(df, "i_2_p212")
    /\ HasCol(df, "i_1_p212") /\ isna(df.col["i_1_p212"][0])
    /\ HasCol(df, "i_3_p212") /\ df.col["i_3_p212"][0] = 99

\* The six items and the designated correct code of each, as the claim has them.
C2_Key ==
    [c \in {"i_1_p212", "i_2_p212", "i_3_p212", "i_6_p212"} |-> 1] @@
    [c \in {"i_4_p212", "i_5_p212"} |-> 2]

C2_Correct(l) ==
    {c \in DOMAIN C2_Key : HasCol(df, c) /\ df.col[c][l] = C2_Key[c]}

\* C2: the score is the number of present item columns whose raw code is the
\* item's correct code; it never exceeds the number of item columns present,
\* and the codes [1,1,1,2,2,1] give 6.
C2_ScoreCountsCorrect ==
    HasCol(df, "hiv_knowledge_score") =>
        \A l \in Labels(df) :
            /\ df.col["hiv_knowledge_score"][l] = Cardinality(C2_Correct(l))
            /\ df.col["hiv_knowledge_score"][l]
                  <= Cardinality({c \in DOMAIN C2_Key : HasCol(df, c)})
            /\ (/\ \A c \in DOMAIN C2_Key : HasCol(df, c)
                /\ <<df.col["i_1_p212"][l], df.col["i_2_p212"][l], df.col["i_3_p212"][l],
                     df.col["i_4_p212"][l], df.col["i_5_p212"][l], df.col["i_6_p212"][l]>>
                      = <<1, 1, 1, 2, 2, 1>>)
               => df.col["hiv_knowledge_score"][l] = 6

\* C2 witness: the six items answered [1,1,1,2,2,1] and scored 6.
C2_Witness ==
    /\ HasCol(df, "hiv_knowledge_score")
    /\ \A c \in DOMAIN C2_Key : HasCol(df, c) /\ df.col[c][0] = C2_Key[c]
    /\ df.col["hiv_knowledge_score"][0] = 6

\* C3: always_condom is missing exactly when the raw code p73 is 9 or 99; for
\* every other raw value it is 1 when p73 is 1 and 0 otherwise.
C3_AlwaysCondom ==
    HasCol(df, "always_condom") =>
        \A l \in Labels(df) :
            /\ isna(df.col["always_condom"][l]) <=> df.col["p73"][l] \in {9, 99}
            /\ df.col["p73"][l] \notin {9, 99} =>
                  df.col["always_condom"][l] = (IF df.col["p73"][l] = 1 THEN 1 ELSE 0)

\* C3 witness: a respondent with the sentinel 99, whose always_condom is missing.
C3_Witness ==
    /\ HasCol(df, "always_condom")
    /\ df.col["p73"][0] = 99
    /\ isna(df.col["always_condom"][0])

\* C4: a raw code p73 of 9 or 99 leaves condom_use_freq, always_condom and
\* ever_condom all three missing, whatever the other fields; for the raw codes
\* 1, 2, 3 condom_use_freq is the raw code.
C4_SentinelAllUndefined ==
    HasCol(df, "ever_condom") =>
        \A l \in Labels(df) :
            /\ df.col["p73"][l] \in {9, 99} =>
                  /\ isna(df.col["condom_use_freq"][l])
                  /\ isna(df.col["always_condom"][l])
                  /\ isna(df.col["ever_condom"][l])
            /\ df.col["p73"][l] \in {1, 2, 3} =>
                  df.col["condom_use_freq"][l] = df.col["p73"][l]

\* C4 witness: at the end of the run, a respondent with raw code 99, a partner
\* and an age group, whose three condom variables are missing.
C4_Witness ==
    /\ pc = "done"
    /\ df.col["p73"][0] = 99
    /\ df.col["p71"][0] = 1
    /\ df.col["edad_grupo"][0] = 7
    /\ isna(df.col["condom_use_freq"][0])
    /\ isna(df.col["always_condom"][0])
    /\ isna(df.col["ever_condom"][0])

\* C5: when ever_condom and always_condom are both defined, ever_condom is at
\* least always_condom.
C5_EverGeAlways ==
    HasCol(df, "ever_condom") =>
        \A l \in Labels(df) :
            (notna(df.col["ever_condom"][l]) /\ notna(df.col["always_condom"][l])) =>
                df.col["ever_condom"][l] >= df.col["always_condom"][l]

\* C5 witness: a respondent who always uses condoms: both indicators are 1.
C5_Witness ==
    /\ HasCol(df, "ever_condom")
    /\ df.col["always_condom"][0] = 1
    /\ df.col["ever_condom"][0] = 1

\* C6: multiple_partners is missing exactly when partners_last_year is; when
\* partners_last_year is defined it is 1 for two partners or more and 0 otherwise.
C6_MultiplePartners ==
    HasCol(df, "multiple_partners") =>
        \A l \in Labels(df) :
            /\ isna(df.col["multiple_partners"][l]) <=> isna(df.col["partners_last_year"][l])
            /\ notna(df.col["partners_last_year"][l]) =>
                  df.col["multiple_partners"][l] =
                      (IF df.col["partners_last_year"][l] >= 2 THEN 1 ELSE 0)

\* C6 witness: a raw count above the cap: both partner variables are missing.
C6_Witness ==
    /\ HasCol(df, "multiple_partners")
    /\ df.col["p71"][0] = 101
    /\ isna(df.col["partners_last_year"][0])
    /\ isna(df.col["multiple_partners"][0])

\* C7: partners_last_year is missing when the raw count p71 is 999 or above
\* 100 and is p71 for 0..100; a respondent whose partners_last_year is missing
\* is never in the analysis sample.
C7_PartnersLastYear ==
    /\ HasCol(df, "partners_last_year") =>
          \A l \in Labels(df) :
              /\ (df.col["p71"][l] = 999 \/ df.col["p71"][l] > 100) =>
                    isna(df.col["partners_last_year"][l])
              /\ df.col["p71"][l] \in 0..100 =>
                    df.col["partners_last_year"][l] = df.col["p71"][l]
    /\ pc \in {"step9", "done"} =>
          \A l \in Labels(df) :
              isna(df.col["partners_last_year"][l]) => l \notin Labels(df_analysis)

\* C7 witness: at the end of the run, a respondent with raw count 999, valid
\* condom use and age group, left out of the analysis sample.
C7_Witness ==
    /\ pc = "done"
    /\ df.col["p71"][0] = 999
    /\ df.col["p73"][0] = 1
    /\ df.col["edad_grupo"][0] = 1
    /\ isna(df.col["partners_last_year"][0])
    /\ 0 \notin Labels(df_analysis)

\* The three inclusion criteria of the cohort filter, as the claims state them.
C8_Included(l) ==
    /\ notna(df.col["partners_last_year"][l]) /\ df.col["partners_last_year"][l] > 0
    /\ notna(df.col["condom_use_freq"][l])
    /\ notna(df.col["edad_grupo"][l])

\* C8: the analysis sample is exactly the respondents of the full table with
\* partners_last_year defined and above 0, condom_use_freq defined and
\* edad_grupo defined, in the table's order and with their cells unchanged.
C8_AnalyticSample ==
    pc \in {"step9", "done"} =>
        /\ df_analysis.index = SelectSeq(df.index, C8_Included)
        /\ \A l \in Labels(df) :
              df.col["partners_last_year"][l] = 0 => l \notin Labels(df_analysis)
        /\ df_analysis.columns = df.columns
        /\ \A c \in Range(df.columns) : \A l \in Labels(df_analysis) :
              df_analysis.col[c][l] = df.col[c][l]

\* C8 witness: a table whose first respondent had no partner and is left
\* out, and whose second respondent meets the three criteria and is kept.
C8_Witness ==
    /\ pc = "done"
    /\ df.index = <<0, 1>>
    /\ df.col["partners_last_year"][0] = 0
    /\ notna(df.col["condom_use_freq"][0]) /\ notna(df.col["edad_grupo"][0])
    /\ df_analysis.index = <<1>>

\* The k-th criterion of the cohort filter on respondent l.
C9_Criterion(k, l) ==
    IF k = 1 THEN notna(df.col["partners_last_year"][l]) /\ df.col["partners_last_year"][l] > 0
    ELSE IF k = 2 THEN notna(df.col["condom_use_freq"][l])
    ELSE notna(df.col["edad_grupo"][l])

C9_Keep(index, k) == SelectSeq(index, LAMBDA l : C9_Criterion(k, l))

\* The six orders of the three criteria.
C9_Orders == {o \in [1..3 -> 1..3] : \A i, j \in 1..3 : o[i] = o[j] => i = j}

\* C9: filtering the full table by the three criteria in any of the six
\* orders gives the rows of the analysis sample of STEP 8.
C9_AnyOrder ==
    pc \in {"step9", "done"} =>
        \A o \in C9_Orders :
            C9_Keep(C9_Keep(C9_Keep(df.index, o[1]), o[2]), o[3]) = df_analysis.index

\* C9 witness: a table whose first respondent fails only the condom
\* criterion (blank P73) and whose second fails only the age criterion.
C9_Witness ==
    /\ pc = "done"
    /\ df.index = <<0, 1>>
    /\ C9_Criterion(1, 0) /\ ~C9_Criterion(2, 0) /\ C9_Criterion(3, 0)
    /\ isna(df.col["p73"][0])
    /\ C9_Criterion(1, 1) /\ C9_Criterion(2, 1) /\ ~C9_Criterion(3, 1)
    /\ df_analysis.index = <<>>

\* C10: the counts STEP 8 reports never grow from one filter to the next,
\* they are the sizes of the successive samples, and each percentage is the
\* count over the initial total, to the nearest tenth of a percent.
C10_MonotoneCounts ==
    pc \in {"step9", "done"} =>
        /\ initial_n = Len(df.index)
        /\ Len(report) = 3
        /\ initial_n >= report[1].n
        /\ report[1].n >= report[2].n
        /\ report[2].n >= report[3].n
        /\ report[1].n = Len(C9_Keep(df.index, 1))
        /\ report[2].n = Len(C9_Keep(C9_Keep(df.index, 1), 2))
        /\ report[3].n = Len(df_analysis.index)
        /\ \A k \in 1..3 :
              LET e == report[k].pct * initial_n - 1000 * report[k].n
              IN  2 * e <= initial_n /\ -2 * e <= initial_n

\* C10 witness: two respondents, both with a partner, one with valid condom
\* use: 100.0%, then 50.0% and 50.0% of the initial two.
C10_Witness ==
    /\ pc = "done"
    /\ initial_n = 2
    /\ report = << [n |-> 2, pct |-> 1000], [n |-> 1, pct |-> 500], [n |-> 1, pct |-> 500] >>

\* The raw age parses as a number.
C11_Parses(age) == age # NaN /\ age # NotANumber

\* The code of the decade bin [18,30), [30,40), ..., [70,80), [80,inf) holding
\* an age of 18 or more.
C11_Bin(age) == IF age >= 80 THEN 7 ELSE IF age < 30 THEN 1 ELSE (age \div 10) - 1

\* C11 as stated: on the fallback path every raw age that parses gets the code
\* 1..7 of its decade bin, and edad_grupo is missing only for a raw age that
\* is unparseable or missing.
C11_AsStated ==
    (data_source = "20241205_ENSSEX_data.csv" /\ HasCol(df, "edad_grupo")) =>
        \A l \in Labels(df) :
            /\ C11_Parses(df.col["p4"][l]) => df.col["edad_grupo"][l] \in 1..7
            /\ isna(df.col["edad_grupo"][l]) => ~C11_Parses(df.col["p4"][l])

\* C11 amended: on the fallback path every raw age of 18 or more that parses
\* gets the code 1..7 of its decade bin (34 gives 2, 29 gives 1, 30 gives 2,
\* 80 gives 7); edad_grupo is missing exactly when the raw age is unparseable,
\* missing or below 18.
C11_AgeBins ==
    (data_source = "20241205_ENSSEX_data.csv" /\ HasCol(df, "edad_grupo")) =>
        \A l \in Labels(df) :
            /\ (C11_Parses(df.col["p4"][l]) /\ df.col["p4"][l] >= 18) =>
                  df.col["edad_grupo"][l] = C11_Bin(df.col["p4"][l])
            /\ isna(df.col["edad_grupo"][l]) <=>
                  (~C11_Parses(df.col["p4"][l]) \/ df.col["p4"][l] < 18)
            /\ df.col["p4"][l] = 34 => df.col["edad_grupo"][l] = 2
            /\ df.col["p4"][l] = 29 => df.col["edad_grupo"][l] = 1
            /\ df.col["p4"][l] = 30 => df.col["edad_grupo"][l] = 2
            /\ df.col["p4"][l] = 80 => df.col["edad_grupo"][l] = 7

\* C11 witness: the fallback path binned a raw age of 34 into group 2.
C11_Witness ==
    /\ data_source = "20241205_ENSSEX_data.csv"
    /\ HasCol(df, "edad_grupo")
    /\ df.col["p4"][0] = 34
    /\ df.col["edad_grupo"][0] = 2

\* C12: the Excel source is always tried first; the CSV is read, and age groups
\* computed, only after the Excel load failed; after a successful Excel load
\* edad_grupo stays the source's; when both loads fail the run aborts with no
\* table, no derived variable and no output.
C12_LoadOrder ==
    /\ pc # "step1" => (Len(reads) >= 1 /\ reads[1] = "xlsx")
    /\ "csv" \in Range(reads) => (Len(xlsx) = 0 /\ reads = <<"xlsx", "csv">>)
    /\ data_source = "20241205_ENSSEX_data.csv" => Len(xlsx) = 0
    /\ (Len(xlsx) = 1 /\ pc # "step1") =>
          /\ reads = <<"xlsx">>
          /\ data_source = "ENSSEX_age_groups.xlsx"
          /\ df.col["edad_grupo"] = xlsx[1].col["edad_grupo"]
    /\ (Len(xlsx) = 0 /\ Len(csv) = 0 /\ pc # "step1") =>
          /\ pc = "aborted"
          /\ df = NoFrame
          /\ df_analysis = NoFrame
          /\ out_file = <<>>

\* C12 witness: the Excel load failed, the CSV was read and the run finished
\* with the age group computed from the raw age.
C12_Witness ==
    /\ pc = "done"
    /\ Len(xlsx) = 0
    /\ reads = <<"xlsx", "csv">>
    /\ df.col["edad_grupo"][0] = assign_age_group(csv[1].col["p4"][0])
    /\ Len(out_file) = 1

\* The raw table the run loaded.
C13_Raw == xlsx[1]

\* Every derived variable of STEP 2 to STEP 6 has been made.
C13_Derived == HasCol(df, "knows_prep")

\* The raw cell of column c is there and is blank or one of the sentinels.
C13_Missing(c, l, sentinels) ==
    HasCol(C13_Raw, c) /\ (isna(C13_Raw.col[c][l]) \/ C13_Raw.col[c][l] \in sentinels)

\* No p202_ cell of the respondent holds an answer, and there is such a cell.
C13_NoStiAnswer(l) ==
    /\ ~HasCol(C13_Raw, "its_alguna_vez")
    /\ Len(sti_vars(C13_Raw)) >= 1
    /\ \A k \in 1..Len(sti_vars(C13_Raw)) : isna(C13_Raw.col[sti_vars(C13_Raw)[k]][l])

\* C13 as stated: a respondent whose raw input of a derived variable (other
\* than the knowledge score) is blank or a sentinel code has that derived
\* variable missing, never 0.0 and never a category.
C13_MissingPropagates ==
    C13_Derived =>
        \A l \in Labels(df) :
            /\ C13_Missing("p73", l, {9, 99}) =>
                  /\ isna(df.col["condom_use_freq"][l])
                  /\ isna(df.col["always_condom"][l])
                  /\ isna(df.col["ever_condom"][l])
            /\ C13_Missing("p71", l, {999}) =>
                  /\ isna(df.col["partners_last_year"][l])
                  /\ isna(df.col["multiple_partners"][l])
            /\ C13_Missing("its_alguna_vez", l, {}) => isna(df.col["any_sti"][l])
            /\ C13_NoStiAnswer(l) => isna(df.col["any_sti"][l])
            /\ C13_Missing("p202_vih", l, {}) => isna(df.col["hiv_diagnosis"][l])
            /\ C13_Missing("p208", l, {9, 99}) => isna(df.col["tested_hiv_12mo"][l])
            /\ C13_Missing("p213", l, {9, 99}) => isna(df.col["knows_prep"][l])
            /\ C13_Missing("p210", l, {9, 99}) => isna(df.col["test_reason"][l])
            /\ C13_Missing("p211", l, {9, 99}) => isna(df.col["no_test_reason"][l])

\* C14 as stated: with neither its_alguna_vez nor any p202_ column any_sti is
\* missing for every respondent; without p202_vih hiv_diagnosis is missing for
\* every respondent.
C14_AbsentColumnsUndefined ==
    C13_Derived =>
        /\ (~HasCol(C13_Raw, "its_alguna_vez") /\ Len(sti_vars(C13_Raw)) = 0) =>
              \A l \in Labels(df) : isna(df.col["any_sti"][l])
        /\ ~HasCol(C13_Raw, "p202_vih") =>
              \A l \in Labels(df) : isna(df.col["hiv_diagnosis"][l])

\* The second half of C14 alone: without p202_vih hiv_diagnosis is missing.
C14_HivDiagnosisPart ==
    (C13_Derived /\ ~HasCol(C13_Raw, "p202_vih")) =>
        \A l \in Labels(df) : isna(df.col["hiv_diagnosis"][l])

\* The table with its columns in the opposite order.
C15_Reversed(f) ==
    [f EXCEPT !.columns = [k \in 1..Len(f.columns) |-> f.columns[Len(f.columns) + 1 - k]]]

\* C15: with its_alguna_vez, any_sti is 1.0 exactly where the summary is 1,
\* whatever the p202_ columns hold; without it, any_sti is 1.0 exactly where at
\* least one p202_ column is 1 and 0.0 elsewhere, in whichever order the
\* p202_ columns are combined.
C15_AnySti ==
    C13_Derived =>
        \A l \in Labels(df) :
            IF HasCol(C13_Raw, "its_alguna_vez")
            THEN df.col["any_sti"][l] =
                    (IF C13_Raw.col["its_alguna_vez"][l] = 1 THEN 1 ELSE 0)
            ELSE /\ df.col["any_sti"][l] =
                       (IF \E c \in p202_names :
                              HasCol(C13_Raw, c) /\ C13_Raw.col[c][l] = 1
                        THEN 1 ELSE 0)
                 /\ df.col["any_sti"][l] = any_sti(C15_Reversed(C13_Raw))[l]

\* C15 witness: no summary column, the first p202_ column combined is 1 and
\* the last one is not, and any_sti is 1.0.
C15_Witness ==
    /\ C13_Derived
    /\ ~HasCol(C13_Raw, "its_alguna_vez")
    /\ Len(sti_vars(C13_Raw)) = 2
    /\ C13_Raw.col[sti_vars(C13_Raw)[1]][0] = 1
    /\ C13_Raw.col[sti_vars(C13_Raw)[2]][0] = 2
    /\ df.col["any_sti"][0] = 1

\* STEP 2 to STEP 7 on a raw table.
C16_Derive(f) == step7(step6(step5(step4(step3(step2(f))))))

\* The optional raw columns of the runs.
C16_Optional ==
    {ItemNames[1], "its_alguna_vez", "p202_vih", "p202_sifilis",
     "p208", "p210", "p211", "p213"}

\* The derived variables that read the optional raw column c.
C16_Dependents(c) ==
    CASE c = "its_alguna_vez" -> {"any_sti"}
      [] c = "p202_vih" -> {"any_sti", "hiv_diagnosis"}
      [] c = "p202_sifilis" -> {"any_sti"}
      [] c = "p208" -> {"tested_hiv_12mo"}
      [] c = "p210" -> {"test_reason"}
      [] c = "p211" -> {"no_test_reason"}
      [] c = "p213" -> {"knows_prep"}
      [] OTHER -> {"hiv_knowledge_score"}

C16_DerivedVars ==
    {"hiv_knowledge_score", "condom_use_freq", "always_condom", "ever_condom",
     "partners_last_year", "multiple_partners", "any_sti", "hiv_diagnosis",
     "tested_hiv_12mo", "knows_prep", "test_reason", "no_test_reason"}

\* No absent optional column aborts the run, and the run that ends has
\* filtered the cohort and saved it.
C16_NoAbort ==
    /\ pc # "aborted"
    /\ pc = "done" => (df_analysis # NoFrame /\ Len(out_file) = 1)

\* Every derived variable that does not read an absent optional column has
\* the values it has with the column there, whatever the column holds.
C16_OthersUnaffected ==
    pc = "step8" =>
        \A c \in C16_Optional :
            ~HasCol(C13_Raw, c) =>
                \A v \in {NaN, 1, 2, 9} :
                    \A d \in C16_DerivedVars \ C16_Dependents(c) :
                        C16_Derive(SetCol(C13_Raw, c, Broadcast(C13_Raw, v))).col[d]
                            = df.col[d]

\* The derived variable whose raw columns are all absent is wholly missing,
\* and the score counts the items that are there.
C16_DependentUndefined ==
    pc = "step8" =>
        \A l \in Labels(df) :
            /\ ~HasCol(C13_Raw, "p208") => isna(df.col["tested_hiv_12mo"][l])
            /\ ~HasCol(C13_Raw, "p210") => isna(df.col["test_reason"][l])
            /\ ~HasCol(C13_Raw, "p211") => isna(df.col["no_test_reason"][l])
            /\ ~HasCol(C13_Raw, "p213") => isna(df.col["knows_prep"][l])
            /\ ~HasCol(C13_Raw, "p202_vih") => isna(df.col["hiv_diagnosis"][l])
            /\ (~HasCol(C13_Raw, "its_alguna_vez") /\ Len(sti_vars(C13_Raw)) = 0) =>
                  isna(df.col["any_sti"][l])
            /\ df.col["hiv_knowledge_score"][l] =
                  Cardinality({k \in 1..Len(hiv_items) :
                                  /\ HasCol(C13_Raw, ItemNames[k])
                                  /\ C13_Raw.col[ItemNames[k]][l] = hiv_items[k].correct_answer})

\* C16 as stated: an absent optional raw column (a knowledge item,
\* its_alguna_vez, p202_*, p208, p210, p211, p213) never aborts the run; the
\* derived variable that depends on it is wholly missing (the item is skipped
\* for the score), every other derived variable has the values it has with the
\* column present, and the cohort filter and the save still run.
C16_AbsentColumnHarmless ==
    /\ C16_NoAbort
    /\ C16_OthersUnaffected
    /\ C16_DependentUndefined

\* A is a proper subset of B.
C17_Within(A, B) == A \subseteq B /\ A # B

\* C17: the predictor sets of Models 1 to 4 are strictly nested, the
\* complete-case rows of each are among those of the model before, and
\* N1 >= N2 >= N3 >= N4.
C17_Nested ==
    /\ \A k \in 1..3 :
          /\ C17_Within(formula(k), formula(k + 1))
          /\ model_data[k + 1] # <<>> =>
                /\ model_data[k] # <<>>
                /\ Range(model_data[k + 1][1].index) \subseteq Range(model_data[k][1].index)
                /\ Len(model_data[k][1].index) >= Len(model_data[k + 1][1].index)
    /\ workbook # <<>> =>
          \A k \in 1..3 : workbook[1].N[k] >= workbook[1].N[k + 1]

\* C17 witness: the workbook reports N1 > N2 > N3 > N4 > 0.
C17_Witness ==
    /\ workbook # <<>>
    /\ workbook[1].N[1] > workbook[1].N[2]
    /\ workbook[1].N[2] > workbook[1].N[3]
    /\ workbook[1].N[3] > workbook[1].N[4]
    /\ workbook[1].N[4] > 0

\* C18: whenever the likelihood-ratio statistic of Model 2 against Model 5 is
\* computed, the two fits were made on the same rows, and the N reported for
\* the two models are equal.
C18_SameRows ==
    /\ lr_test # <<>> =>
          /\ lr_test[1].model2 = lr_test[1].model5
          /\ lr_test[1].model2 = dropna(df3, model2_columns).index
          /\ model_data[2][1].index = model_data[5][1].index
    /\ workbook # <<>> => (lr_test # <<>> /\ workbook[1].N[2] = workbook[1].N[5])

\* C18 witness: the statistic was computed from fits on a non-empty table
\* that lost a respondent to a missing PrEP answer in Model 4 only.
C18_Witness ==
    /\ lr_test # <<>>
    /\ Len(lr_test[1].model5) > 0
    /\ Len(model_data[4][1].index) < Len(lr_test[1].model5)

\* The complete cases of an age-group label on the three stratified columns.
C19_Cases(a) ==
    Cardinality({l \in Labels(df3) :
                    /\ df3.col["edad_grupo_lbl"][l] = a
                    /\ df3.col["always_condom"][l] # NaN
                    /\ df3.col["hiv_knowledge_score"][l] # NaN
                    /\ df3.col["partners_last_year"][l] # NaN})

\* C19: the age-stratified table has a row for a label exactly when the label
\* has at least 30 complete cases on always_condom, hiv_knowledge_score and
\* partners_last_year; no label with fewer is fitted or reported, no label is
\* reported twice, and every reported N is at least 30.
C19_AgeStratified ==
    /\ \A i \in DOMAIN age_stratified_results :
          /\ age_stratified_results[i].N >= 30
          /\ age_stratified_results[i].N = C19_Cases(age_stratified_results[i].Age_Group)
          /\ \A j \in DOMAIN age_stratified_results :
                age_stratified_results[i].Age_Group = age_stratified_results[j].Age_Group
                    => i = j
    /\ (fit_error # <<>> /\ fit_error[1] \in Range(sorted_labels)) =>
          C19_Cases(fit_error[1]) >= 30
    /\ workbook # <<>> =>
          /\ workbook[1].Age_Stratified = age_stratified_results
          /\ \A a \in Range(sorted_labels) \cup {NaNLabel} :
                (\E i \in DOMAIN age_stratified_results :
                    age_stratified_results[i].Age_Group = a)
                <=> (a # NaNLabel /\ C19_Cases(a) >= 30)

\* C19 witness: the workbook's age-stratified table has the one row of a
\* label with exactly 30 complete cases, and another label has 29.
C19_Witness ==
    /\ workbook # <<>>
    /\ Len(workbook[1].Age_Stratified) = 1
    /\ workbook[1].Age_Stratified[1].N = 30
    /\ \E a \in Range(sorted_labels) : C19_Cases(a) = 29

\* C20 as stated: when the fit of one model of the battery fails, every other
\* model is still fitted and its result table is in the workbook.
C20_FailureConfined ==
    (pc3 = "aborted" /\ fit_error # <<>>) =>
        /\ workbook # <<>>
        /\ \A k \in 1..5 : model_data[k] # <<>>
        /\ {"Model1_Age_Knowledge", "Model2_Add_Partners", "Model3_Add_STI_Testing",
            "Model4_Add_PrEP", "Model5_Interaction", "Age_Stratified"}
               \ {CASE fit_error[1] = "Model 1" -> "Model1_Age_Knowledge"
                    [] fit_error[1] = "Model 2" -> "Model2_Add_Partners"
                    [] fit_error[1] = "Model 3" -> "Model3_Add_STI_Testing"
                    [] fit_error[1] = "Model 4" -> "Model4_Add_PrEP"
                    [] fit_error[1] = "Model 5" -> "Model5_Interaction"
                    [] OTHER -> "none"}
               \subseteq Range(workbook[1].sheets)

\* C27 as stated: after STEP 3 condom_use_freq, always_condom and ever_condom
\* of a respondent are all three defined or all three missing, also when the
\* raw code p73 is blank.
C27_AllOrNone ==
    HasCol(df, "ever_condom") =>
        \A l \in Labels(df) :
            \/ /\ isna(df.col["condom_use_freq"][l])
               /\ isna(df.col["always_condom"][l])
               /\ isna(df.col["ever_condom"][l])
            \/ /\ notna(df.col["condom_use_freq"][l])
               /\ notna(df.col["always_condom"][l])
               /\ notna(df.col["ever_condom"][l])

\* C27 read for the answered and the sentinel codes alone: there the three
\* variables are defined together or missing together.
C27_AnsweredOrSentinel ==
    HasCol(df, "ever_condom") =>
        \A l \in Labels(df) :
            notna(df.col["p73"][l]) =>
                /\ isna(df.col["condom_use_freq"][l]) <=> isna(df.col["always_condom"][l])
                /\ isna(df.col["condom_use_freq"][l]) <=> isna(df.col["ever_condom"][l])

\* C29 as stated: on both construction paths of any_sti, hiv_diagnosis = 1.0
\* implies any_sti = 1.0.
C29_HivImpliesSti ==
    C13_Derived =>
        \A l \in Labels(df) :
            df.col["hiv_diagnosis"][l] = 1 => df.col["any_sti"][l] = 1

\* C29 on the path without the summary column alone.
C29_PerDiseasePath ==
    (C13_Derived /\ ~HasCol(C13_Raw, "its_alguna_vez")) =>
        \A l \in Labels(df) :
            df.col["hiv_diagnosis"][l] = 1 => df.col["any_sti"][l] = 1

\* C28: every row of the analytic sample of STEP 8 has always_condom,
\* edad_grupo, hiv_knowledge_score, partners_last_year and multiple_partners
\* defined; so the complete-case rows of Model 1, Model 2 and Model 5 are the
\* whole analytic sample and N1 = N2 = N5 = its size.
C28_SampleComplete ==
    /\ pc \in {"step9", "done"} =>
          \A l \in Labels(df_analysis) :
              \A c \in {"always_condom", "edad_grupo", "hiv_knowledge_score",
                        "partners_last_year", "multiple_partners"} :
                  notna(df_analysis.col[c][l])
    /\ \A k \in {1, 2, 5} :
          model_data[k] # <<>> =>
              /\ model_data[k][1].index = df3.index
              /\ Len(model_data[k][1].index) = Len(df_analysis.index)
    /\ workbook # <<>> =>
          \A k \in {1, 2, 5} : workbook[1].N[k] = Len(df_analysis.index)

\* C28 witness: the workbook reports N1 = N2 = N5 = the size of a non-empty
\* analytic sample that left out a respondent with a blank P73.
C28_Witness ==
    /\ workbook # <<>>
    /\ workbook[1].N[1] = Len(df_analysis.index)
    /\ workbook[1].N[5] = Len(df_analysis.index)
    /\ Len(df_analysis.index) > 0
    /\ \E l \in Labels(df) : isna(df.col["p73"][l]) /\ l \notin Labels(df_analysis)

C24_Pairs(c) ==
    {l \in Labels(df2) : df2.col[c][l] # NaN /\ df2.col["condom_use_freq"][l] # NaN}

\* Over the pairs, column c never falls when condom_use_freq rises (up = 1) or
\* never rises when it rises (up = -1), and some pair differs in both.
C24_Monotone(c, up) ==
    /\ \A l \in C24_Pairs(c), m \in C24_Pairs(c) :
          (df2.col[c][m] - df2.col[c][l]) * up
              * (df2.col["condom_use_freq"][m] - df2.col["condom_use_freq"][l]) >= 0
    /\ \E l \in C24_Pairs(c), m \in C24_Pairs(c) :
          (df2.col[c][m] - df2.col[c][l]) * up
              * (df2.col["condom_use_freq"][m] - df2.col["condom_use_freq"][l]) > 0

\* C24: each of the four predictors gets a Spearman row exactly when it has a
\* row with both the predictor and condom_use_freq defined; the coefficient is
\* taken over those rows alone, the N reported is their number, and the
\* interpretation is 'More use' exactly when the coefficient is negative.
C24_Spearman ==
    pc2 \notin {"start", "spearman"} =>
        /\ \A k \in 1..Len(continuous_vars) :
              (\E i \in DOMAIN correlations :
                  correlations[i].Variable = continuous_vars[k].label)
              <=> (HasCol(df2, continuous_vars[k].var)
                   /\ C24_Pairs(continuous_vars[k].var) # {})
        /\ \A i \in DOMAIN correlations :
              \A k \in 1..Len(continuous_vars) :
                  correlations[i].Variable = continuous_vars[k].label =>
                      /\ correlations[i].N = Cardinality(C24_Pairs(continuous_vars[k].var))
                      /\ C24_Monotone(continuous_vars[k].var, 1) =>
                            correlations[i].Spearman_rho = "positive"
                      /\ C24_Monotone(continuous_vars[k].var, -1) =>
                            correlations[i].Spearman_rho = "negative"
                      /\ correlations[i].Interpretation = "More use"
                            <=> correlations[i].Spearman_rho = "negative"
                      /\ correlations[i].Interpretation \in {"More use", "Less use"}

\* C24 witness: the partner count has a negative coefficient over two of the
\* three respondents, the third lacking the partner count, and reads 'More use'.
C24_Witness ==
    /\ pc2 = "done"
    /\ Len(df2.index) = 3
    /\ \E i \in DOMAIN correlations :
          /\ correlations[i].Variable = "Partners last year"
          /\ correlations[i].N = 2
          /\ correlations[i].Spearman_rho = "negative"
          /\ correlations[i].Interpretation = "More use"

\* C30 as stated: for every coefficient, negative, zero or positive, the
\* interpretation stored and the direction printed for the predictor agree:
\* 'Less use' is stored exactly when the log says a higher value of the
\* predictor goes with lower condom use.
C30_StoredMatchesPrinted ==
    /\ Len(printed) = Len(correlations)
    /\ \A i \in DOMAIN correlations :
          /\ printed[i].Variable = correlations[i].Variable
          /\ correlations[i].Interpretation = "Less use"
                <=> printed[i].direction = "up variable -> down condom use"

\* C30 for the coefficients that are not zero and are a number.
C30_NonZero ==
    \A i \in DOMAIN correlations :
        correlations[i].Spearman_rho \in {"negative", "positive"} =>
            (correlations[i].Interpretation = "Less use"
                <=> printed[i].direction = "up variable -> down condom use")

\* A coefficient of exactly zero has been stored.
C30_ZeroReached == \E i \in DOMAIN correlations : correlations[i].Spearman_rho = "zero"

\* The rows of the loaded table that have both column c and a condom-use label.
C22_Pairs(c) ==
    {l \in Labels(df2) : df2.col[c][l] # NaN /\ df2.col["condom_use_lbl"][l] # NaNLabel}

\* Column c is there with a value, and among its pairs with the condom-use
\* label two differ in the predictor and two differ in the label.
C22_Testable(c) ==
    /\ HasCol(df2, c)
    /\ \E l \in Labels(df2) : df2.col[c][l] # NaN
    /\ \E l \in C22_Pairs(c), m \in C22_Pairs(c) : df2.col[c][l] # df2.col[c][m]
    /\ \E l \in C22_Pairs(c), m \in C22_Pairs(c) :
          df2.col["condom_use_lbl"][l] # df2.col["condom_use_lbl"][m]

\* C22: a binary predictor gets a chi-square row exactly when its column
\* exists with a defined value and its cross-tabulation with the condom-use
\* label over the non-missing pairs is at least 2 x 2; a predictor that is not
\* tested gets no row, and the loop goes on to the predictors after it.
C22_ChiSquare ==
    pc2 \notin {"start", "spearman", "chi2"} =>
        /\ \A k \in 1..Len(binary_predictors) :
              (\E i \in DOMAIN chi2_results :
                  chi2_results[i].Predictor = binary_predictors[k].label)
              <=> C22_Testable(binary_predictors[k].var)
        /\ \A i \in DOMAIN chi2_results, j \in DOMAIN chi2_results :
              chi2_results[i].Predictor = chi2_results[j].Predictor => i = j
        /\ \A i \in DOMAIN chi2_results :
              \A k \in 1..Len(binary_predictors) :
                  chi2_results[i].Predictor = binary_predictors[k].label =>
                      chi2_results[i].N = Cardinality(C22_Pairs(binary_predictors[k].var))
        /\ test_error # <<"chi2">>

\* C22 witness: the three predictors before PrEP awareness were skipped (one
\* category, or no value) and PrEP awareness was tested on two of the three
\* respondents.
C22_Witness ==
    /\ pc2 = "done"
    /\ Len(df2.index) = 3
    /\ Len(chi2_results) = 1
    /\ chi2_results[1].Predictor = "PrEP awareness"
    /\ chi2_results[1].N = 2

\* The age-group labels of the loaded table with a defined condom_use_freq.
C23_NonEmpty ==
    {a \in Range(sorted_labels) :
        \E l \in Labels(df2) :
            df2.col["edad_grupo_lbl"][l] = a /\ df2.col["condom_use_freq"][l] # NaN}

\* C23: the Kruskal-Wallis test is run only with two or more labels that have
\* a defined condom_use_freq value, and compares exactly those labels; with
\* fewer than two the test and the descriptive sheet by age are skipped and
\* the run goes on to the end.
C23_Kruskal ==
    /\ kruskal # <<>> =>
          /\ Cardinality(C23_NonEmpty) >= 2
          /\ Range(kruskal[1]) = C23_NonEmpty
          /\ Len(kruskal[1]) = Cardinality(C23_NonEmpty)
    /\ (pc2 \notin {"start", "spearman", "chi2", "kruskal"}
        /\ Cardinality(C23_NonEmpty) < 2) =>
          /\ kruskal = <<>>
          /\ age_desc = <<>>
          /\ test_error = <<>>
          /\ pc2 \in {"save", "done"}
          /\ workbook2 # <<>> => "Condom_Use_by_Age" \notin Range(workbook2[1].sheets)
    /\ (workbook2 # <<>> /\ "Condom_Use_by_Age" \in Range(workbook2[1].sheets)) =>
          kruskal # <<>>

\* C23 witness: two labels with observations were compared and a third label,
\* with none, was left out.
C23_Witness ==
    /\ kruskal # <<>>
    /\ Len(kruskal[1]) = 2
    /\ \E l \in Labels(df2) :
          /\ df2.col["edad_grupo_lbl"][l] # NaNLabel
          /\ df2.col["edad_grupo_lbl"][l] \notin Range(kruskal[1])

\* What a finished run of the bivariate script holds agrees with what an
\* earlier run held, as far as both came.
C25_SameBivariate ==
    (earlier2 # <<>> /\ pc2 \in {"done", "aborted"}) =>
        /\ df2 = earlier2[1].df
        /\ correlations = earlier2[1].correlations
        /\ printed = earlier2[1].printed
        /\ chi2_results = earlier2[1].chi2_results
        /\ age_groups2 = earlier2[1].age_groups
        /\ (kruskal # <<>> /\ earlier2[1].kruskal # <<>>) =>
              kruskal = earlier2[1].kruskal /\ age_desc = earlier2[1].age_desc
        /\ (pc2 = "done" /\ earlier2[1].pc = "done") => workbook2 = earlier2[1].workbook

\* The same of the regression script: the table loaded, the complete cases of
\* each model fitted in both runs and the strata fitted in both runs.
C25_SameRegression ==
    (earlier3 # <<>> /\ pc3 \in {"done", "aborted"}) =>
        /\ (df3 # NoFrame /\ earlier3[1].df # NoFrame) => df3 = earlier3[1].df
        /\ \A k \in 1..5 :
              (model_data[k] # <<>> /\ earlier3[1].model_data[k] # <<>>) =>
                  model_data[k] = earlier3[1].model_data[k]
        /\ \A i \in DOMAIN age_stratified_results :
              \A j \in DOMAIN earlier3[1].age_stratified_results :
                  age_stratified_results[i].Age_Group
                      = earlier3[1].age_stratified_results[j].Age_Group
                  => age_stratified_results[i] = earlier3[1].age_stratified_results[j]
        /\ (pc3 = "done" /\ earlier3[1].pc = "done") => workbook = earlier3[1].workbook

\* C25: once 01_prepare_data.py has written the analytic table, the bivariate,
\* regression, visualization and flow-diagram scripts leave it as it was
\* written, each reads that table, and a run of the bivariate or the
\* regression script gives what an earlier run gave, whichever of the scripts
\* ran in between.
C25_TableReadOnly ==
    /\ pc = "done" => out_file = << to_excel(df_out(df_analysis)) >>
    /\ pc = "aborted" => out_file = <<>>
    /\ pc2 \notin {"start", "aborted"} => df2 = read_excel(out_file[1])
    /\ pc3 \notin {"start", "aborted"} => df3 = read_excel(out_file[1])
    /\ pc4 \notin {"start", "aborted"} => df4 = read_excel(out_file[1])
    /\ C25_SameBivariate
    /\ C25_SameRegression

\* C25 witness: the four later scripts have run to the end, the bivariate and
\* the regression script for the second time, the bivariate script the second
\* time after the regression script had saved its workbook.
C25_Witness ==
    /\ pc = "done" /\ pc2 = "done" /\ pc3 = "done" /\ pc4 = "done" /\ pc5 = "done"
    /\ earlier2 # <<>> /\ earlier2[1].pc = "done"
    /\ earlier3 # <<>> /\ earlier3[1].pc = "done"
    /\ Cardinality(figures) = 7
    /\ workbook2 # <<>>

\* C26: the counts the flow diagram shows (enrolled, retained after the
\* partner, condom-use and age filters, and each exclusion count) are the
\* counts STEP 8 reported for the table that was prepared.
C26_PrismaMatchesFilter ==
    (prisma # <<>> /\ pc = "done") =>
        /\ prisma[1].enrolled = initial_n
        /\ prisma[1].remaining1 = report[1].n
        /\ prisma[1].remaining2 = report[2].n
        /\ prisma[1].final = report[3].n
        /\ prisma[1].excluded1 = initial_n - report[1].n
        /\ prisma[1].excluded2 = report[1].n - report[2].n
        /\ prisma[1].excluded3 = report[2].n - report[3].n
        /\ prisma[1].final_pct = report[3].pct

\* The diagram is consistent in itself: each exclusion count is the
\* difference of the counts around it.
C26_Consistent ==
    prisma # <<>> =>
        /\ prisma[1].excluded1 = prisma[1].enrolled - prisma[1].remaining1
        /\ prisma[1].excluded2 = prisma[1].remaining1 - prisma[1].remaining2
        /\ prisma[1].excluded3 = prisma[1].remaining2 - prisma[1].final
        /\ prisma[1].final_pct = pct1(prisma[1].final, prisma[1].enrolled)

====
